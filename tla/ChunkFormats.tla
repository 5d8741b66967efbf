---------------------------- MODULE ChunkFormats ----------------------------
(* Formats that are chains of chunks, and formats that end with a mark.      *)
EXTENDS Formats

(* Chains: some have a data_check that follows the chain while the file is   *)
(* carved, some a file_check that follows it in the saved file.              *)
file_ab == {FirstChunk(Chunks(0, 0, 8), {"calc"})}
file_abr == {FirstChunk(Chunks(0, 4, 12), {"calc", "min"})}
file_ace == {Scanned(30)}
file_amr == {Unguarded(Chunks(0, 6, 4))}
file_axx == {Tolerant(42)}
file_bac == {FirstChunk(Chunks(0, 0, 24), {"min"})}
(* A chunk has 32 bytes and a body; the last one has none.  It ends the file *)
(* as soon as its first 16 bytes are seen.                                   *)
file_bvr == {Closed(Ignoring(Unguarded(Chunks(0, 0, 16))), 32)}
(* A zero behind the last chunk takes a byte off the file; a last chunk      *)
(* without a length leaves the checks out                                    *)
file_caf == {[Chunks(20, 8, 12) EXCEPT !.tail = d] : d \in {-1, 0}} \cup {Plain(20)}
file_che == {Cut(25)}
(* Each chunk starts with the signature of the format *)
file_dad == {[FirstChunk(AtChunk(Chunks(0, 0, 16)), {"min"})
                 EXCEPT !.file = "max_size", !.tight = 0]}
file_evt == {Chunks(0, 48, 8)}
(* The code that follows the metadata is left out of the build *)
file_flac == {AtLeast(4)}
(* The length of the last tag follows it *)
file_flv == {[Chunks(0, 9, 15) EXCEPT !.tail = 4]}
file_fs == {Chunks(0, 4, 17)}
file_gsm == {Ignoring(Unguarded(Chunks(33, 0, 33)))}
(* A file_check that keeps one byte more than the last element needs *)
file_hdf == {Scanned(0)}
file_idx == {Ignoring(NoFileCheck(Unguarded(Chunks(48, 0, 4))))}
file_mid == {[Chunks(0, 14, 8) EXCEPT !.file = "scan"]}
file_mig == {Cut(0)}
file_oci == {Chunks(0, 0, 8)}
(* A page has a header of at most 27 + 255 bytes *)
file_ogg == {[Short(Ignoring(Chunks(0, 0, 282)), 28) EXCEPT !.need = 283]}
file_par2 == {Checking(FirstChunk(Chunks(64, 0, 16), {"min"}))}
file_psp == {[Chunks(0, 36, 10) EXCEPT !.need = 16], Plain(0)}
file_spf == {Cut(0)}
(* Chunks of a sector; the last one carries a mark *)
file_tib == {[Closed(Chunks(0, 0, 512), 512) EXCEPT !.tight = 0], Plain(0)}
(* What is no chunk in the last block may be the rest of a chunk to come *)
file_wv == {Cutting(FirstChunk(Chunks(0, 0, 8), {"min"}), "late")}
(* The size the catalog tells is never compared with what has been written *)
file_x4a == {[Scanned(512) EXCEPT !.file = "unchecked_scan"]}

-----------------------------------------------------------------------------
(* End marks: some formats have their file_check look backwards for it in    *)
(* the saved file (file_search_footer), some have their data_check look for  *)
(* it in every block.                                                        *)
file_als == {Footer(0, 22, 7)}
file_asm == {Footer(0, 11, 1)}
(* The search starts one footer before the block, and the distance is added  *)
(* as an unsigned number (see FileRecovery, MarkCheck)                       *)
file_axp == {[Mark(0, 34, 34) EXCEPT !.data = "unsigned_mark"]}
file_bkf == {Footer(52, 4, 1020)}
file_crw == {Footer(0, 2, 12)}
file_cwk == {Footer(0, 4, 4)}
file_drw == {Footer(0, 11, 1)}
(* The data check misses an end mark that ends with a block; the file       *)
(* check finds it afterwards, and takes a line feed that follows             *)
file_dxf == {[Mark(0, 4, 3) EXCEPT !.file = "footer", !.need = 3]}
file_e01 == {Footer(0, 16, 60)}
file_frm == {Footer(0, 11, 1)}
file_gp2 == {Footer(0, 8, 0)}
file_gp5 == {Footer(0, 13, 0), Plain(0)}
file_hr9 == {Footer(0, 4, 76)}
file_lso == {Footer(0, 6, 70)}
file_mfa == {Footer(0, 5, 132)}
file_mfg == {Footer(0, 11, 1)}
file_mobi == {Footer(0, 58, 26)}
file_mus == {Footer(18, 5, 0)}
file_njx == {Footer(0, 4, 0)}
(* The first zero ends the text; its place is counted from the start of the  *)
(* buffer, a block too far, and the file is cut to lines of 82 or 81 bytes   *)
file_pdb == {[Mark(80, 1, 0) EXCEPT !.data = "zero", !.tight = 0,
                                    !.file = "lines", !.extra = n] : n \in {81, 82}}
file_prt == {Footer(0, 11, 1)}
file_ps == {[Mark(0, 5, 4) EXCEPT !.tight = 0], Plain(0)}
file_pzf == {Footer(0, 17, 0)}
file_rar == {Footer(70, 7, 0), Footer(60, 8, 0), Plain(70), Plain(60)}
file_tivo == {Footer(0, 8, 0)}
file_tph == {Footer(0, 11, 1)}
file_vault == {[Mark(0, 29, 28) EXCEPT !.tight = 0]}
file_vfb == {Footer(0, 9, 0)}
file_vmg == {Footer(0, 21, 0)}
file_wee == {Footer(0, 7, 17)}
file_xz == {Footer(9, 2, 0)}
=============================================================================
