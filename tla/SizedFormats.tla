---------------------------- MODULE SizedFormats ----------------------------
(* Formats whose header tells the size of the file, or whose size is a       *)
(* constant: calculated_file_size is set by the header check.  Where a       *)
(* format has several header checks, or one that knows the size only         *)
(* sometimes, the definition has a record for each.                          *)
EXTENDS Formats

file_1cd == {Sized(0, 4096)}
file_7z == {Sized(31, 33)}
file_aif == {Sized(0, 12)}
file_asf == {Sized(0, 70), Plain(0)}
file_au == {Sized(111, 111), Plain(111)}
file_bin == {Sized(65, 65)}
file_bpg == {Sized(0, 9), Fixed(8388608)}
file_cab == {Sized(0, 36)}
file_chm == {Sized(0, 108)}
file_d2s == {Sized(0, 20)}
file_dat == {Sized(32, 32), Plain(8), Plain(60), Plain(66)}
file_dex == {Sized(0, 41)}
(* A FAT directory: its first block *)
file_dir == {OneBlock}
file_djv == {Sized(0, 13)}
file_dpx == {Sized(0, 19)}
file_dst == {Sized(0, 512)}
(* The encrypted file has up to 1 MB more than the plain one *)
file_ecryptfs == {[Slack(0, 16, 1048576) EXCEPT !.claim = {"calc", "min"}]}
file_evtx == {Sized(0, 4096)}
(* The header check of a superblock puts the size of its block in file_size, *)
(* and leaves calculated_file_size at 0; a directory is its first block      *)
file_ext == {Fixed(0), OneBlock}
file_ext2 == {Checking(Sized(0, 1024))}
file_fat == {Sized(0, 512)}
file_fcs == {Sized(58, 9)}
file_fds == {Sized(16, 16)}
file_fh5 == {Slack(4096, 12, 4096)}
file_fit == {Sized(12, 12)}
file_flp == {Sized(0, 23)}
file_fm == {Sized(0, 12833)}
file_gct == {Fixed(2416)}
file_gi == {Sized(0, 20)}
file_hdr == {Sized(0, 0), Plain(0)}
file_icc == {Sized(0, 128)}
file_icns == {Sized(0, 16)}
file_ifo == {Sized(0, 2048)}
file_iso == {Sized(33280, 33280), Plain(33280)}
file_itu == {Sized(104, 12)}
(* Only the size of the uncompressed text is known *)
file_jsonlz4 == {AtMost(0, 1)}
file_key == {Fixed(32)}
file_lxo == {Sized(0, 11)}
file_mb == {Sized(16, 16), Plain(16)}
file_mft == {Sized(0, 43)}
file_mrw == {Sized(0, 8)}
file_msa == {Sized(0, 0)}
file_myo == {Ignoring(Sized(0, 2516))}
file_nes == {Sized(16, 16)}
file_one == {Sized(200, 200)}
file_pf == {Sized(0, 0)}
file_pfx == {Sized(0, 22)}
file_plr == {Fixed(1856)}
file_psf == {Checking(Sized(0, 272))}
file_pst == {Sized(0, 128), Sized(0, 461), Sized(0, 513), Plain(0)}
file_ra == {Sized(0, 8), Sized(0, 40)}
(* The end of the last picture; nothing tells how much follows *)
file_raf == {AtLeastSize(0, 108)}
file_rx2 == {Sized(0, 12)}
(* The position of the last byte is taken for the size *)
file_sp3 == {[Sized(10240, 10242) EXCEPT !.shift = -1], Sized(10240, 10240)}
file_sql == {Sized(100, 512), Plain(100)}
file_stl == {Sized(0, 84)}
file_studio == {Sized(65, 77)}
(* The end of the last table or'ed with 3: 3 more than a table that ends at  *)
(* a multiple of 4, 1 less than the padded end of one that does not          *)
file_ttf == {[Sized(0, 28) EXCEPT !.shift = d] : d \in {-1, 3}} \cup {Plain(0)}
file_vdi == {Sized(0, 512), Plain(0)}
file_veg == {Sized(0, 20)}
file_wim == {Sized(0, 208)}
file_wmf == {Sized(0, 2), Plain(0)}
file_woff == {Sized(0, 44)}
file_wpd == {Sized(0, 20), AtLeast(20)}
file_wtv == {Checking(Sized(0, 4096))}
(* A superblock knows its size; of other structures the first block is taken *)
file_xfs == {Sized(0, 1),
             [Unknown EXCEPT !.min = 512, !.data = "first_block"],
             [Unknown EXCEPT !.data = "first_block"]}
file_xpt == {Sized(65, 65)}
file_xsv == {Fixed(202772)}
=============================================================================
