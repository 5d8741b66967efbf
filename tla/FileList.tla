------------------------------ MODULE FileList ------------------------------
(* The list of the formats that are searched for (file_list.c), with one     *)
(* name for the formats that share a source file.                            *)
EXTENDS PlainFormats, SizedFormats, ChunkFormats, MixedFormats

list_file_enable == UNION {
    file_1cd, file_3dm, file_7z, file_a, file_ab, file_abr, file_acb,
    file_ace, file_ado, file_afdesign, file_ahn, file_aif, file_all,
    file_als, file_amd, file_amr, file_apa, file_ape, file_apple, file_ari,
    file_arj, file_asf, file_asl, file_asm, file_atd, file_au, file_axp,
    file_axx, file_bac, file_bdm, file_berkeley, file_bim, file_bin,
    file_binvox, file_bkf, file_bld, file_bmp, file_bpg, file_bvr, file_bz2,
    file_c4d, file_cab, file_caf, file_cam, file_catdrawing, file_cdt,
    file_che, file_chm, file_class, file_cm, file_compress, file_cow,
    file_cpi, file_crw, file_csh, file_ctg, file_cwk, file_d2s, file_dad,
    file_dar, file_dat, file_DB, file_dbf, file_dbn, file_dcm, file_ddf,
    file_dex, file_dim, file_dir, file_djv, file_dmp, file_doc, file_dpx,
    file_drw, file_ds2, file_ds_store, file_dsc, file_dss, file_dst,
    file_dta, file_dump, file_dv, file_dvi, file_dvr, file_dwg, file_dxf,
    file_e01, file_ecryptfs, file_edb, file_elf, file_emf, file_ess,
    file_evt, file_evtx, file_exe, file_exr, file_exs, file_ext, file_ext2,
    file_fasttxt, file_fat, file_fbf, file_fbk, file_fcp, file_fcs,
    file_fdb, file_fds, file_fh10, file_fh5, file_filevault, file_fit,
    file_fits, file_flac, file_flp, file_flv, file_fm, file_fob, file_fos,
    file_fp5, file_fp7, file_freeway, file_frm, file_fs, file_fwd, file_gam,
    file_gct, file_gho, file_gi, file_gif, file_gm6, file_gp2, file_gp5,
    file_gpg, file_gpx, file_gsm, file_gz, file_hdf, file_hdr, file_hds,
    file_hfsp, file_hm, file_hr9, file_http, file_ibd, file_icc, file_icns,
    file_ico, file_idx, file_ifo, file_imb, file_indd, file_info, file_iso,
    file_it, file_itu, file_jks, file_jpg, file_jsonlz4, file_kdb,
    file_kdbx, file_key, file_ldf, file_lit, file_lnk, file_logic, file_lso,
    file_luks, file_lxo, file_lzh, file_lzo, file_m2ts, file_mat, file_max,
    file_mb, file_mcd, file_mdb, file_mdf, file_mfa, file_mfg, file_mft,
    file_mid, file_mig, file_mk5, file_mkv, file_mlv, file_mobi, file_mov,
    file_mp3, file_mpg, file_mpl, file_mrw, file_msa, file_mus, file_mxf,
    file_myo, file_mysql, file_nd2, file_nds, file_nes, file_njx, file_nk2,
    file_nsf, file_oci, file_ogg, file_one, file_orf, file_paf, file_pap,
    file_par2, file_pcap, file_pcb, file_pct, file_pcx, file_pdb, file_pdf,
    file_pds, file_pf, file_pfx, file_pgdump, file_plist, file_plr,
    file_plt, file_png, file_pnm, file_prc, file_prd, file_prt, file_ps,
    file_psb, file_psd, file_psf, file_psp, file_pst, file_ptb, file_ptf,
    file_pyc, file_pzf, file_pzh, file_qbb, file_qdf, file_qkt, file_qxd,
    file_r3d, file_ra, file_raf, file_rar, file_raw, file_rdc, file_reg,
    file_res, file_rfp, file_riff, file_rlv, file_rm, file_rns, file_rpm,
    file_rw2, file_rx2, file_save, file_ses, file_sgcta, file_shn, file_sib,
    file_sig, file_sit, file_skd, file_skp, file_snag, file_snz, file_sp3,
    file_spe, file_spf, file_spss, file_sql, file_sqm, file_steuer2014,
    file_stl, file_stu, file_studio, file_swf, file_tar, file_tax, file_tg,
    file_tib, file_tiff, file_tivo, file_torrent, file_tph, file_tpl,
    file_ttf, file_txt, file_tz, file_v2i, file_vault, file_vdi, file_vdj,
    file_veg, file_vfb, file_vib, file_vmdk, file_vmg, file_wallet,
    file_wdp, file_wee, file_wim, file_win, file_wks, file_wld, file_wmf,
    file_wnk, file_woff, file_wpb, file_wpd, file_wtv, file_wv, file_x3f,
    file_x3i, file_x4a, file_xar, file_xcf, file_xfi, file_xfs, file_xm,
    file_xml, file_xpt, file_xsv, file_xv, file_xz, file_z2d, file_zcode,
    file_zip, file_zpr
    }
=============================================================================
