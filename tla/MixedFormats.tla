---------------------------- MODULE MixedFormats ----------------------------
(* Formats with variants of several kinds, or with checks of their own.      *)
EXTENDS Formats

(* Only where the archive tells it is followed by comments its size is known *)
file_arj == {Sized(0, 34), Footer(0, 4, 0)}
(* The last block is the bare header ENDB, of 20 or 24 bytes *)
file_bld == {[Closed(Chunks(0, 12, n), n) EXCEPT !.need = 20] : n \in {20, 24}}
file_bmp == {Sized(65, 65)}
(* The FAT of a compound document tells its size; the header check accepts   *)
(* one of every kind                                                         *)
Compound == Scanned(0)
file_doc == {Compound}
(* Frames; what is left of the last one is cut off *)
file_dv == {[Ignoring(Chunks(0, 0, 8)) EXCEPT !.file = "cutting_scan"]}
file_elf == {AtLeast(0)}
(* The record EMR_EOF of 20 bytes is the last; 9 bytes of it are read *)
file_emf == {Closed(FirstChunk(Chunks(0, 0, 8), {"calc"}), 20)}
(* Windows 16 bit, Windows, and COFF programs *)
file_exe == {AtLeast(24), Sized(0, 24), AtLeast(2)}
(* Headers and data take units of 2880 bytes.  The cards of a header are     *)
(* read as far as they are in the buffer.                                    *)
file_fits == {[Cutting(FirstChunk(Chunks(2880, 0, 8), {"calc"}), "misreads")
                  EXCEPT !.data = "hdus", !.need = 80, !.extra = 2880],
              Plain(2880)}
(* Images and extensions and their blocks, ended by a trailer of one byte.   *)
(* An image descriptor is read with 20 bytes in the buffer.  Entered in the  *)
(* middle of an image, data_check_gif2 stays the data_check.                 *)
file_gif == {[Cutting(Closed(FirstChunk(Chunks(42, 0, 2), {"calc"}), 1), "loses") EXCEPT !.file = "trailer"]}
(* A file where the last packet has no length is not modelled: what follows  *)
(* the header of this packet is cut off                                      *)
Packets == [Plain(0) EXCEPT !.file = "packets", !.extra = 32]
file_gpg == {Packets}
(* A header found in a compressed file that is in progress is passed over *)
file_gz == {Plain(22), Ignoring(Plain(22)), Plain(0)}
file_ico == {Sized(0, 22)}
file_indd == {Checking(Scanned(0))}
(* Segments, the last of which is followed by the picture.  A small picture  *)
(* at the start of the file is taken for its thumbnail.  Without libjpeg     *)
(* the file ends with the first end mark.  Then the variant with several     *)
(* pictures, whose sizes an index tells.                                     *)
Segmented == [Unguarded(FirstChunk(Chunks(0, 2, 4), {"min"})) EXCEPT !.file = "segments"]
Picture == [Segmented EXCEPT !.data = "picture", !.extra = 8]
Pictures == Sized(0, 1025)
file_jpg == {Picture, Checking(Picture), Checking(Pictures)}
file_lnk == {Sized(0, 76)}
file_lzh == {Plain(0)}
(* Packets of 192 bytes with their sync byte at 4, or of 188 bytes at 0 *)
file_m2ts == {[Short(Ignoring(Chunks(192, 0, 5)), 192) EXCEPT !.file = "max_size"],
              [Short(AtChunk(Unguarded(Chunks(188, 0, 1))), 188) EXCEPT !.file = "max_size"]}
file_mkv == {Sized(0, 1), Plain(0)}
(* The index file tells its size, the others are chains of blocks *)
file_mlv == {Sized(0, 52),
             [Short(Chunks(0, 0, 8), 16) EXCEPT !.need = 17, !.file = "whole_chunks"]}
(* An atom whose size has 64 bits has a header of 16 bytes *)
Atoms == [Cutting(FirstChunk(Chunks(0, 0, 8), {"calc"}), "waits")
              EXCEPT !.tight = 0, !.need = 16]
file_mov == {AtChunk(Atoms), Plain(0)}
(* Frames and tags; the end of lyrics has to be in the buffer with their     *)
(* start.  A header in a file that is in progress is passed over             *)
Frames == Cutting(FirstChunk(Chunks(287, 0, 16), {"calc"}), "stops")
file_mp3 == {Frames, Ignoring(Frames)}
(* Packets; the end code has 4 bytes *)
Packs == Short(Chunks(0, 0, 14), 4)
file_mpg == {Packs, Ignoring(Packs)}
file_mxf == {Unguarded(FirstChunk(Chunks(0, 0, 15), {"calc"}))}
file_nk2 == {Seeking(0)}
file_orf == {Plain(0), Scanned(0)}
(* The header has the lower 16 bits of the size *)
file_pct == {[AtLeast(0) EXCEPT !.least = 528, !.file = "modulo", !.extra = 65536]}
(* A linearized file tells its size, but is kept when it is torn *)
file_pdf == {AtMost(0, 20), Footer(0, 4, 0)}
(* The chunk IEND, and MEND of the other variants, has 12 bytes: 9 are read *)
file_png == {[Closed(Chunks(16, 8, 8), 12) EXCEPT !.file = "header_scan"],
             Closed(Chunks(0, 8, 8), 12)}
(* Color mode, resources and layers, then the image *)
file_psb == {[Short(Chunks(70, 26, 16), 4) EXCEPT !.data = "sections", !.file = "sections"]}
file_psd == {[Short(Chunks(70, 26, 16), 4) EXCEPT !.data = "sections", !.file = "sections"]}
file_qbb == {Sized(0, 22), Sized(0, 1024), Plain(0)}
(* The atom REO tells the last of the atoms *)
file_r3d == {[Closed(Chunks(0, 0, 8), 8) EXCEPT !.tight = 0, !.data = "sections"], Plain(0)}
(* AVI files, their streams, and the other variants *)
file_riff == {Sized(0, 12),
              [FirstChunk(Chunks(0, 0, 12), {"calc"}) EXCEPT !.file = "max_size"],
              [FirstChunk(Chunks(0, 0, 8), {"calc"}) EXCEPT !.file = "max_size"],
              AtLeastSize(0, 8)}
file_rw2 == {Lower(0)}
(* A signature of the user *)
file_sig == {Plain(0)}
file_snag == {Scanned(24 + 512)}
file_spe == {Sized(4100, 4100)}
(* The size in the header of a compressed file is the size of its contents *)
file_swf == {AtMost(0, 9), Sized(0, 9), AtMost(0, 23)}
(* The strips and the directories bound the size from below; a picture with  *)
(* a directory at its end, or with a thumbnail before, ends with it.  A      *)
(* header in a picture that is not complete is passed over.                  *)
DirectoriesLe == Lower(0)
DirectoriesBe == Lower(0)
file_tiff_le == {DirectoriesLe, Checking(DirectoriesLe), Scanned(0)}
file_tiff_be == {DirectoriesBe, Checking(DirectoriesBe), Scanned(0)}
file_tiff == file_tiff_le \cup file_tiff_be
(* Text files of many kinds.  Web pages end with a tag that is looked for   *)
(* while they are carved, others with one that is looked for in the file     *)
Html == [Mark(0, 7, 8) EXCEPT !.data = "unsigned_mark"]
Tagged(n) == [Footer(0, n, 0) EXCEPT !.data = "text", !.back = 10]
(* One of them counts every byte of text, however few a block has *)
Texts == {Text, [Text EXCEPT !.back = 0], Tagged(17)}
(* What is not kept as text goes on until the next header *)
Xml == {Tagged(1), Tagged(6), Footer(0, 1, 0), Footer(0, 6, 0), Html, Plain(0)}
(* In a mailbox that is in progress, mail and web pages are passed over *)
Mail == {Text, Ignoring(Text)}
file_fasttxt == Texts \cup Xml \cup Mail \cup {Html, Ignoring(Html), Tagged(13)}
(* Other texts; texts of 16 bit characters, and the mail of Apple, that ends *)
(* with a list of properties                                                 *)
Utf16 == Sized(0, 2)
Emlx == Footer(0, 9, 0)
(* A text no keyword starts is taken for one by the letters and words in it *)
Unnamed == {Text, Html}
file_txt == {Text, Utf16, Emlx} \cup Unnamed
file_snz == {Text}
file_wdp == {Scanned(0)}
file_win == {Text}
file_xm == {Seeking(336 + 29)}
(* A header in an office file is passed over as long as this is not complete *)
Archive == Scanned(21)
(* Its last record may end with a comment, that is not read but passed over  *)
Commented == Seeking(21)
file_zip == {Checking(Archive), Checking(Commented), Scanned(0)}
=============================================================================
