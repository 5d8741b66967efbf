---------------------------- MODULE PlainFormats ----------------------------
(* Formats whose header tells no size: the file goes on until the next       *)
(* header, and is kept when it has at least min_filesize bytes.              *)
EXTENDS Formats

file_3dm == {Plain(0)}
file_a == {Plain(0)}
file_acb == {Plain(0)}
file_ado == {Plain(0)}
(* the length of the compressed data has to be there *)
file_afdesign == {AtLeast(0)}
file_ahn == {Plain(0)}
file_all == {Plain(122)}
file_amd == {Plain(0)}
file_apa == {Plain(0)}
file_ape == {Plain(0)}
file_apple == {Plain(0)}
file_ari == {Plain(4096)}
file_asl == {Plain(0)}
file_atd == {Plain(0)}
file_bdm == {Plain(0)}
file_berkeley == {Plain(12 + 8)}
file_bim == {Plain(0)}
file_binvox == {Plain(0)}
file_bz2 == {Plain(0)}
file_c4d == {Plain(0)}
file_cam == {Plain(0)}
file_catdrawing == {Plain(0)}
file_cdt == {Plain(0)}
file_class == {Plain(0)}
file_cm == {Plain(0)}
file_compress == {Plain(0)}
(* the largest of the offsets in the header has to be there; of the tests
   chained by else, header_check_qcow2 may take a smaller one *)
file_cow == {AtLeast(0)}
file_cpi == {Plain(0)}
file_csh == {Plain(0)}
file_ctg == {Plain(0)}
file_dar == {Plain(0)}
file_DB == {Plain(0)}
file_dbf == {Plain(0)}
file_dbn == {Plain(0)}
file_dcm == {Plain(0)}
file_ddf == {Plain(0)}
file_dim == {Plain(0)}
file_dmp == {Plain(0)}
file_ds2 == {Plain(512)}
file_ds_store == {AtLeast(0)}
file_dsc == {Plain(0)}
file_dss == {Plain(100 + 798)}
file_dta == {Plain(0)}
file_dump == {Plain(0)}
file_dvi == {AtLeast(15)}
(* a second header of its own is passed over *)
file_dvr == {Ignoring(Plain(16))}
file_dwg == {Plain(0)}
(* the second page of the database is a copy of the first *)
file_edb == {[Plain(0) EXCEPT !.again = "copy", !.extra = 4096]}
file_ess == {Plain(0)}
file_exr == {Plain(32)}
file_exs == {Plain(0)}
file_fbf == {Plain(0)}
file_fbk == {Plain(0)}
file_fcp == {Plain(0)}
file_fdb == {Ignoring(Plain(0))}
file_fh10 == {Plain(4096)}
file_filevault == {Plain(0)}
file_fob == {AtLeast(0)}
file_fos == {Plain(16)}
file_fp5 == {Plain(0)}
(* file_check_fp7 keeps whole pages of 4096 bytes *)
file_fp7 == {Pages(4096, 4096)}
file_freeway == {Plain(0)}
file_fwd == {Plain(0)}
file_gam == {Plain(0)}
file_gho == {Plain(0)}
file_gm6 == {Plain(0)}
file_gpx == {Plain(0)}
file_hds == {Plain(0)}
file_hfsp == {Plain(0)}
file_hm == {Plain(0)}
file_http == {Plain(0)}
(* the record "supremum" ends 0xc078 bytes from the start *)
file_ibd == {Plain(49272)}
file_imb == {Plain(16)}
file_info == {Plain(0)}
file_it == {Plain(0)}
file_jks == {Plain(12 + 4 + 2 + 8)}
file_kdb == {Plain(124)}
file_kdbx == {Plain(124)}
file_ldf == {Plain(0)}
file_lit == {Plain(0)}
file_logic == {Plain(0)}
file_luks == {Plain(512)}
file_lzo == {Plain(0)}
file_mat == {Plain(0)}
file_max == {Plain(0)}
file_mcd == {Plain(0)}
file_mdb == {Plain(0)}
file_mdf == {Plain(0)}
file_mk5 == {Plain(0)}
file_mpl == {Plain(0)}
file_mysql == {Plain(0)}
file_nd2 == {Plain(0)}
file_nds == {Plain(384)}
file_nsf == {Plain(0)}
file_paf == {Plain(0)}
file_pap == {Plain(0)}
file_pcap == {Plain(0)}
file_pcb == {Plain(8)}
file_pcx == {Plain(0)}
file_pds == {Plain(0)}
file_pgdump == {Plain(0)}
file_plist == {Plain(0)}
file_plt == {Plain(0)}
file_pnm == {Plain(0)}
file_prc == {Plain(0)}
file_prd == {Plain(0)}
file_ptb == {Plain(0)}
file_ptf == {Plain(0)}
file_pyc == {Plain(0)}
file_pzh == {Plain(2500 + 10)}
file_qdf == {Plain(0)}
file_qkt == {Plain(0)}
file_qxd == {Plain(4), Plain(8)}
file_raw == {Plain(0)}
file_rdc == {Plain(0)}
file_reg == {Plain(4096)}
file_res == {Plain(0)}
file_rfp == {Plain(0)}
file_rlv == {Plain(28)}
file_rm == {Plain(0)}
file_rns == {Plain(0)}
file_rpm == {Plain(96+16+16)}
file_save == {Plain(0)}
file_ses == {Plain(0)}
file_sgcta == {Plain(0)}
file_shn == {Plain(0)}
file_sib == {Plain(0)}
file_sit == {Plain(0)}
file_skd == {Plain(0)}
file_skp == {Plain(0)}
file_spss == {Plain(0)}
file_sqm == {Plain(0)}
file_steuer2014 == {Plain(0)}
file_stu == {Plain(0)}
file_tar == {Ignoring(Plain(512))}
file_tax == {Plain(0)}
file_tg == {Plain(0)}
file_torrent == {Plain(0)}
file_tpl == {Plain(0)}
file_tz == {Plain(0)}
file_v2i == {Plain(0)}
file_vdj == {Plain(0)}
file_vib == {Plain(0)}
file_vmdk == {Plain(512)}
file_wallet == {Plain(0)}
file_wks == {Plain(0)}
file_wld == {Plain(0)}
file_wnk == {Plain(0)}
file_wpb == {Plain(0)}
file_x3f == {Plain(1024)}
file_x3i == {Plain(1024)}
file_xar == {AtLeast(28)}
file_xcf == {Plain(0)}
file_xfi == {Plain(0)}
file_xml == {Plain(512)}
file_xv == {Plain(0)}
file_z2d == {Plain(0)}
file_zcode == {Plain(0)}
file_zpr == {Plain(0)}
=============================================================================
