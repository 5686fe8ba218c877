------------------------------- MODULE NlsIso -------------------------------
(* The translation tables of ISO 8859, KOI8-R and the Macintosh, and the    *)
(* default table (libunls/nls_iso8859*.c, nls_koi8-r.c, nls_mac-roman.c,    *)
(* nls_base.c).                                                             *)
EXTENDS NlsTables

(* default: nls_base.c *)

default_charset2uni == Ascii \o Upper(<< <<\h80,\h80,128>>>>)

default_page00 == Page(<< <<1,1,255>>>>)

default_page_uni2charset ==
  (0 :> default_page00)
default_table == Table("default", default_charset2uni, default_page_uni2charset)

(* iso8859-1: nls_iso8859-1.c *)

iso8859_1_charset2uni == Ascii \o Upper(<< <<\hA0,\hA0,96>>>>)

iso8859_1_page00 == Page(<< <<1,1,127>>, <<\hA0,\hA0,96>>>>)

iso8859_1_page_uni2charset ==
  (0 :> iso8859_1_page00)
iso8859_1_table == Table("iso8859-1", iso8859_1_charset2uni, iso8859_1_page_uni2charset)

(* iso8859-14: nls_iso8859-14.c *)

iso8859_14_charset2uni == Ascii \o Upper(<< <<\hA0,\hA0,1>>,
  <<\hA1,\h1E02,2>>, <<\hA3,\hA3,1>>, <<\hA4,\h10A,2>>, <<\hA6,\h1E0A,1>>,
  <<\hA7,\hA7,1>>, <<\hA8,\h1E80,1>>, <<\hA9,\hA9,1>>, <<\hAA,\h1E82,1>>,
  <<\hAB,\h1E0B,1>>, <<\hAC,\h1EF2,1>>, <<\hAD,\hAD,2>>, <<\hAF,\h178,1>>,
  <<\hB0,\h1E1E,2>>, <<\hB2,\h120,2>>, <<\hB4,\h1E40,2>>, <<\hB6,\hB6,1>>,
  <<\hB7,\h1E56,1>>, <<\hB8,\h1E81,1>>, <<\hB9,\h1E57,1>>, <<\hBA,\h1E83,1>>,
  <<\hBB,\h1E60,1>>, <<\hBC,\h1EF3,1>>, <<\hBD,\h1E84,2>>, <<\hBF,\h1E61,1>>,
  <<\hC0,\hC0,16>>, <<\hD0,\h174,1>>, <<\hD1,\hD1,6>>, <<\hD7,\h1E6A,1>>,
  <<\hD8,\hD8,6>>, <<\hDE,\h176,1>>, <<\hDF,\hDF,17>>, <<\hF0,\h175,1>>,
  <<\hF1,\hF1,6>>, <<\hF7,\h1E6B,1>>, <<\hF8,\hF8,6>>, <<\hFE,\h177,1>>,
  <<\hFF,\hFF,1>>>>)

iso8859_14_page00 == Page(<< <<1,1,127>>, <<\hA0,\hA0,1>>, <<\hA3,\hA3,1>>,
  <<\hA7,\hA7,1>>, <<\hA9,\hA9,1>>, <<\hAD,\hAD,2>>, <<\hB6,\hB6,1>>,
  <<\hC0,\hC0,16>>, <<\hD1,\hD1,6>>, <<\hD8,\hD8,6>>, <<\hDF,\hDF,17>>,
  <<\hF1,\hF1,6>>, <<\hF8,\hF8,6>>, <<\hFF,\hFF,1>>>>)
iso8859_14_page01 == Page(<< <<2,\hA1,2>>, <<\hA,\hA6,1>>, <<\hB,\hAB,1>>,
  <<\h1E,\hB0,4>>, <<\h40,\hB4,2>>, <<\h56,\hB7,1>>, <<\h57,\hB9,1>>,
  <<\h60,\hBB,1>>, <<\h61,\hBF,1>>, <<\h6A,\hD7,1>>, <<\h6B,\hF7,1>>,
  <<\h74,\hD0,1>>, <<\h75,\hF0,1>>, <<\h76,\hDE,1>>, <<\h77,\hFE,1>>,
  <<\h78,\hAF,1>>, <<\h80,\hA8,1>>, <<\h81,\hB8,1>>, <<\h82,\hAA,1>>,
  <<\h83,\hBA,1>>, <<\h84,\hBD,2>>, <<\hF2,\hAC,1>>, <<\hF3,\hBC,1>>>>)
iso8859_14_page1e == Page(<< <<2,\hA1,2>>, <<\hA,\hA6,1>>, <<\hB,\hAB,1>>,
  <<\h1E,\hB0,4>>, <<\h40,\hB4,2>>, <<\h56,\hB7,1>>, <<\h57,\hB9,1>>,
  <<\h60,\hBB,1>>, <<\h61,\hBF,1>>, <<\h6A,\hD7,1>>, <<\h6B,\hF7,1>>,
  <<\h74,\hD0,1>>, <<\h75,\hF0,1>>, <<\h76,\hDE,1>>, <<\h77,\hFE,1>>,
  <<\h78,\hAF,1>>, <<\h80,\hA8,1>>, <<\h81,\hB8,1>>, <<\h82,\hAA,1>>,
  <<\h83,\hBA,1>>, <<\h84,\hBD,2>>, <<\hF2,\hAC,1>>, <<\hF3,\hBC,1>>>>)

iso8859_14_page_uni2charset ==
  (0 :> iso8859_14_page00) @@ (1 :> iso8859_14_page01)
  @@ (\h1E :> iso8859_14_page1e)
iso8859_14_table == Table("iso8859-14", iso8859_14_charset2uni, iso8859_14_page_uni2charset)

(* iso8859-15: nls_iso8859-15.c *)

iso8859_15_charset2uni == Ascii \o Upper(<< <<\hA0,\hA0,4>>,
  <<\hA4,\h20AC,1>>, <<\hA5,\hA5,1>>, <<\hA6,\h160,1>>, <<\hA7,\hA7,1>>,
  <<\hA8,\h161,1>>, <<\hA9,\hA9,11>>, <<\hB4,\h17D,1>>, <<\hB5,\hB5,3>>,
  <<\hB8,\h17E,1>>, <<\hB9,\hB9,3>>, <<\hBC,\h152,2>>, <<\hBE,\h178,1>>,
  <<\hBF,\hBF,65>>>>)

iso8859_15_page00 == Page(<< <<1,1,127>>, <<\hA0,\hA0,4>>, <<\hA5,\hA5,1>>,
  <<\hA7,\hA7,1>>, <<\hA9,\hA9,11>>, <<\hB5,\hB5,3>>, <<\hB9,\hB9,3>>,
  <<\hBF,\hBF,65>>>>)
iso8859_15_page01 == Page(<< <<\h52,\hBC,2>>, <<\h60,\hA6,1>>,
  <<\h61,\hA8,1>>, <<\h78,\hBE,1>>, <<\h7D,\hB4,1>>, <<\h7E,\hB8,1>>>>)
iso8859_15_page20 == Page(<< <<\hAC,\hA4,1>>>>)

iso8859_15_page_uni2charset ==
  (0 :> iso8859_15_page00) @@ (1 :> iso8859_15_page01)
  @@ (\h20 :> iso8859_15_page20)
iso8859_15_table == Table("iso8859-15", iso8859_15_charset2uni, iso8859_15_page_uni2charset)

(* iso8859-2: nls_iso8859-2.c *)

iso8859_2_charset2uni == Ascii \o <<
  0, 0, 0, 0, 0, 0, 0, 0, 0, 0, 0, 0, 0, 0, 0, 0, 0, 0, 0, 0, 0, 0, 0, 0, 0,
  0, 0, 0, 0, 0, 0, 0, \hA0, \h104, \h2D8, \h141, \hA4, \h13D, \h15A, \hA7,
  \hA8, \h160, \h15E, \h164, \h179, \hAD, \h17D, \h17B, \hB0, \h105, \h2DB,
  \h142, \hB4, \h13E, \h15B, \h2C7, \hB8, \h161, \h15F, \h165, \h17A, \h2DD,
  \h17E, \h17C, \h154, \hC1, \hC2, \h102, \hC4, \h139, \h106, \hC7, \h10C,
  \hC9, \h118, \hCB, \h11A, \hCD, \hCE, \h10E, \h110, \h143, \h147, \hD3,
  \hD4, \h150, \hD6, \hD7, \h158, \h16E, \hDA, \h170, \hDC, \hDD, \h162, \hDF,
  \h155, \hE1, \hE2, \h103, \hE4, \h13A, \h107, \hE7, \h10D, \hE9, \h119,
  \hEB, \h11B, \hED, \hEE, \h10F, \h111, \h144, \h148, \hF3, \hF4, \h151,
  \hF6, \hF7, \h159, \h16F, \hFA, \h171, \hFC, \hFD, \h163, \h2D9>>

iso8859_2_page00 == Page(<< <<1,1,127>>, <<\hA0,\hA0,1>>, <<\hA4,\hA4,1>>,
  <<\hA7,\hA7,2>>, <<\hAD,\hAD,1>>, <<\hB0,\hB0,1>>, <<\hB4,\hB4,1>>,
  <<\hB8,\hB8,1>>, <<\hC1,\hC1,2>>, <<\hC4,\hC4,1>>, <<\hC7,\hC7,1>>,
  <<\hC9,\hC9,1>>, <<\hCB,\hCB,1>>, <<\hCD,\hCD,2>>, <<\hD3,\hD3,2>>,
  <<\hD6,\hD6,2>>, <<\hDA,\hDA,1>>, <<\hDC,\hDC,2>>, <<\hDF,\hDF,1>>,
  <<\hE1,\hE1,2>>, <<\hE4,\hE4,1>>, <<\hE7,\hE7,1>>, <<\hE9,\hE9,1>>,
  <<\hEB,\hEB,1>>, <<\hED,\hED,2>>, <<\hF3,\hF3,2>>, <<\hF6,\hF6,2>>,
  <<\hFA,\hFA,1>>, <<\hFC,\hFC,2>>>>)
iso8859_2_page01 == Page(<< <<2,\hC3,1>>, <<3,\hE3,1>>, <<4,\hA1,1>>,
  <<5,\hB1,1>>, <<6,\hC6,1>>, <<7,\hE6,1>>, <<\hC,\hC8,1>>, <<\hD,\hE8,1>>,
  <<\hE,\hCF,1>>, <<\hF,\hEF,1>>, <<\h10,\hD0,1>>, <<\h11,\hF0,1>>,
  <<\h18,\hCA,1>>, <<\h19,\hEA,1>>, <<\h1A,\hCC,1>>, <<\h1B,\hEC,1>>,
  <<\h39,\hC5,1>>, <<\h3A,\hE5,1>>, <<\h3D,\hA5,1>>, <<\h3E,\hB5,1>>,
  <<\h41,\hA3,1>>, <<\h42,\hB3,1>>, <<\h43,\hD1,1>>, <<\h44,\hF1,1>>,
  <<\h47,\hD2,1>>, <<\h48,\hF2,1>>, <<\h50,\hD5,1>>, <<\h51,\hF5,1>>,
  <<\h54,\hC0,1>>, <<\h55,\hE0,1>>, <<\h58,\hD8,1>>, <<\h59,\hF8,1>>,
  <<\h5A,\hA6,1>>, <<\h5B,\hB6,1>>, <<\h5E,\hAA,1>>, <<\h5F,\hBA,1>>,
  <<\h60,\hA9,1>>, <<\h61,\hB9,1>>, <<\h62,\hDE,1>>, <<\h63,\hFE,1>>,
  <<\h64,\hAB,1>>, <<\h65,\hBB,1>>, <<\h6E,\hD9,1>>, <<\h6F,\hF9,1>>,
  <<\h70,\hDB,1>>, <<\h71,\hFB,1>>, <<\h79,\hAC,1>>, <<\h7A,\hBC,1>>,
  <<\h7B,\hAF,1>>, <<\h7C,\hBF,1>>, <<\h7D,\hAE,1>>, <<\h7E,\hBE,1>>>>)
iso8859_2_page02 == Page(<< <<\hC7,\hB7,1>>, <<\hD8,\hA2,1>>, <<\hD9,\hFF,1>>,
  <<\hDB,\hB2,1>>, <<\hDD,\hBD,1>>>>)

iso8859_2_page_uni2charset ==
  (0 :> iso8859_2_page00) @@ (1 :> iso8859_2_page01)
  @@ (2 :> iso8859_2_page02)
iso8859_2_table == Table("iso8859-2", iso8859_2_charset2uni, iso8859_2_page_uni2charset)

(* iso8859-3: nls_iso8859-3.c *)

iso8859_3_charset2uni == Ascii \o <<
  0, 0, 0, 0, 0, 0, 0, 0, 0, 0, 0, 0, 0, 0, 0, 0, 0, 0, 0, 0, 0, 0, 0, 0, 0,
  0, 0, 0, 0, 0, 0, 0, \hA0, \h126, \h2D8, \hA3, \hA4, 0, \h124, \hA7, \hA8,
  \h130, \h15E, \h11E, \h134, \hAD, 0, \h17B, \hB0, \h127, \hB2, \hB3, \hB4,
  \hB5, \h125, \hB7, \hB8, \h131, \h15F, \h11F, \h135, \hBD, 0, \h17C, \hC0,
  \hC1, \hC2, 0, \hC4, \h10A, \h108, \hC7, \hC8, \hC9, \hCA, \hCB, \hCC, \hCD,
  \hCE, \hCF, 0, \hD1, \hD2, \hD3, \hD4, \h120, \hD6, \hD7, \h11C, \hD9, \hDA,
  \hDB, \hDC, \h16C, \h15C, \hDF, \hE0, \hE1, \hE2, 0, \hE4, \h10B, \h109,
  \hE7, \hE8, \hE9, \hEA, \hEB, \hEC, \hED, \hEE, \hEF, 0, \hF1, \hF2, \hF3,
  \hF4, \h121, \hF6, \hF7, \h11D, \hF9, \hFA, \hFB, \hFC, \h16D, \h15D, \h2D9>>

iso8859_3_page00 == Page(<< <<1,1,127>>, <<\hA0,\hA0,1>>, <<\hA3,\hA3,2>>,
  <<\hA7,\hA7,2>>, <<\hAD,\hAD,1>>, <<\hB0,\hB0,1>>, <<\hB2,\hB2,4>>,
  <<\hB7,\hB7,2>>, <<\hBD,\hBD,1>>, <<\hC0,\hC0,3>>, <<\hC4,\hC4,1>>,
  <<\hC7,\hC7,9>>, <<\hD1,\hD1,4>>, <<\hD6,\hD6,2>>, <<\hD9,\hD9,4>>,
  <<\hDF,\hDF,4>>, <<\hE4,\hE4,1>>, <<\hE7,\hE7,9>>, <<\hF1,\hF1,4>>,
  <<\hF6,\hF6,2>>, <<\hF9,\hF9,4>>>>)
iso8859_3_page01 == Page(<< <<8,\hC6,1>>, <<9,\hE6,1>>, <<\hA,\hC5,1>>,
  <<\hB,\hE5,1>>, <<\h1C,\hD8,1>>, <<\h1D,\hF8,1>>, <<\h1E,\hAB,1>>,
  <<\h1F,\hBB,1>>, <<\h20,\hD5,1>>, <<\h21,\hF5,1>>, <<\h24,\hA6,1>>,
  <<\h25,\hB6,1>>, <<\h26,\hA1,1>>, <<\h27,\hB1,1>>, <<\h30,\hA9,1>>,
  <<\h31,\hB9,1>>, <<\h34,\hAC,1>>, <<\h35,\hBC,1>>, <<\h5C,\hDE,1>>,
  <<\h5D,\hFE,1>>, <<\h5E,\hAA,1>>, <<\h5F,\hBA,1>>, <<\h6C,\hDD,1>>,
  <<\h6D,\hFD,1>>, <<\h7B,\hAF,1>>, <<\h7C,\hBF,1>>>>)
iso8859_3_page02 == Page(<< <<\hD8,\hA2,1>>, <<\hD9,\hFF,1>>>>)

iso8859_3_page_uni2charset ==
  (0 :> iso8859_3_page00) @@ (1 :> iso8859_3_page01)
  @@ (2 :> iso8859_3_page02)
iso8859_3_table == Table("iso8859-3", iso8859_3_charset2uni, iso8859_3_page_uni2charset)

(* iso8859-4: nls_iso8859-4.c *)

iso8859_4_charset2uni == Ascii \o <<
  0, 0, 0, 0, 0, 0, 0, 0, 0, 0, 0, 0, 0, 0, 0, 0, 0, 0, 0, 0, 0, 0, 0, 0, 0,
  0, 0, 0, 0, 0, 0, 0, \hA0, \h104, \h138, \h156, \hA4, \h128, \h13B, \hA7,
  \hA8, \h160, \h112, \h122, \h166, \hAD, \h17D, \hAF, \hB0, \h105, \h2DB,
  \h157, \hB4, \h129, \h13C, \h2C7, \hB8, \h161, \h113, \h123, \h167, \h14A,
  \h17E, \h14B, \h100, \hC1, \hC2, \hC3, \hC4, \hC5, \hC6, \h12E, \h10C, \hC9,
  \h118, \hCB, \h116, \hCD, \hCE, \h12A, \h110, \h145, \h14C, \h136, \hD4,
  \hD5, \hD6, \hD7, \hD8, \h172, \hDA, \hDB, \hDC, \h168, \h16A, \hDF, \h101,
  \hE1, \hE2, \hE3, \hE4, \hE5, \hE6, \h12F, \h10D, \hE9, \h119, \hEB, \h117,
  \hED, \hEE, \h12B, \h111, \h146, \h14D, \h137, \hF4, \hF5, \hF6, \hF7, \hF8,
  \h173, \hFA, \hFB, \hFC, \h169, \h16B, \h2D9>>

iso8859_4_page00 == Page(<< <<1,1,127>>, <<\hA0,\hA0,1>>, <<\hA4,\hA4,1>>,
  <<\hA7,\hA7,2>>, <<\hAD,\hAD,1>>, <<\hAF,\hAF,2>>, <<\hB4,\hB4,1>>,
  <<\hB8,\hB8,1>>, <<\hC1,\hC1,6>>, <<\hC9,\hC9,1>>, <<\hCB,\hCB,1>>,
  <<\hCD,\hCD,2>>, <<\hD4,\hD4,5>>, <<\hDA,\hDA,3>>, <<\hDF,\hDF,1>>,
  <<\hE1,\hE1,6>>, <<\hE9,\hE9,1>>, <<\hEB,\hEB,1>>, <<\hED,\hED,2>>,
  <<\hF4,\hF4,5>>, <<\hFA,\hFA,3>>>>)
iso8859_4_page01 == Page(<< <<0,\hC0,1>>, <<1,\hE0,1>>, <<4,\hA1,1>>,
  <<5,\hB1,1>>, <<\hC,\hC8,1>>, <<\hD,\hE8,1>>, <<\h10,\hD0,1>>,
  <<\h11,\hF0,1>>, <<\h12,\hAA,1>>, <<\h13,\hBA,1>>, <<\h16,\hCC,1>>,
  <<\h17,\hEC,1>>, <<\h18,\hCA,1>>, <<\h19,\hEA,1>>, <<\h22,\hAB,1>>,
  <<\h23,\hBB,1>>, <<\h28,\hA5,1>>, <<\h29,\hB5,1>>, <<\h2A,\hCF,1>>,
  <<\h2B,\hEF,1>>, <<\h2E,\hC7,1>>, <<\h2F,\hE7,1>>, <<\h36,\hD3,1>>,
  <<\h37,\hF3,1>>, <<\h38,\hA2,1>>, <<\h3B,\hA6,1>>, <<\h3C,\hB6,1>>,
  <<\h45,\hD1,1>>, <<\h46,\hF1,1>>, <<\h4A,\hBD,1>>, <<\h4B,\hBF,1>>,
  <<\h4C,\hD2,1>>, <<\h4D,\hF2,1>>, <<\h56,\hA3,1>>, <<\h57,\hB3,1>>,
  <<\h60,\hA9,1>>, <<\h61,\hB9,1>>, <<\h66,\hAC,1>>, <<\h67,\hBC,1>>,
  <<\h68,\hDD,1>>, <<\h69,\hFD,1>>, <<\h6A,\hDE,1>>, <<\h6B,\hFE,1>>,
  <<\h72,\hD9,1>>, <<\h73,\hF9,1>>, <<\h7D,\hAE,1>>, <<\h7E,\hBE,1>>>>)
iso8859_4_page02 == Page(<< <<\hC7,\hB7,1>>, <<\hD9,\hFF,1>>, <<\hDB,\hB2,1>>>>)

iso8859_4_page_uni2charset ==
  (0 :> iso8859_4_page00) @@ (1 :> iso8859_4_page01)
  @@ (2 :> iso8859_4_page02)
iso8859_4_table == Table("iso8859-4", iso8859_4_charset2uni, iso8859_4_page_uni2charset)

(* iso8859-5: nls_iso8859-5.c *)

iso8859_5_charset2uni == Ascii \o Upper(<< <<\hA0,\hA0,1>>, <<\hA1,\h401,12>>,
  <<\hAD,\hAD,1>>, <<\hAE,\h40E,66>>, <<\hF0,\h2116,1>>, <<\hF1,\h451,12>>,
  <<\hFD,\hA7,1>>, <<\hFE,\h45E,2>>>>)

iso8859_5_page00 == Page(<< <<1,1,127>>, <<\hA0,\hA0,1>>, <<\hA7,\hFD,1>>,
  <<\hAD,\hAD,1>>>>)
iso8859_5_page04 == Page(<< <<1,\hA1,12>>, <<\hE,\hAE,66>>, <<\h51,\hF1,12>>,
  <<\h5E,\hFE,2>>>>)
iso8859_5_page21 == Page(<< <<\h16,\hF0,1>>>>)

iso8859_5_page_uni2charset ==
  (0 :> iso8859_5_page00) @@ (4 :> iso8859_5_page04)
  @@ (\h21 :> iso8859_5_page21)
iso8859_5_table == Table("iso8859-5", iso8859_5_charset2uni, iso8859_5_page_uni2charset)

(* iso8859-6: nls_iso8859-6.c *)

iso8859_6_charset2uni == [b \in 1 .. 128 |-> IF b - 1 \in \h30 .. \h39 THEN b - 1 + \h630 ELSE b - 1] \o Upper(<<
  <<\hA0,\hA0,1>>, <<\hA4,\hA4,1>>, <<\hAC,\h60C,1>>, <<\hAD,\hAD,1>>,
  <<\hBB,\h61B,1>>, <<\hBF,\h61F,1>>, <<\hC1,\h621,26>>, <<\hE0,\h640,19>>>>)

iso8859_6_page00 == Page(<< <<1,1,47>>, <<\h3A,\h3A,70>>, <<\hA0,\hA0,1>>,
  <<\hA4,\hA4,1>>, <<\hAD,\hAD,1>>>>)
iso8859_6_page06 == Page(<< <<\hC,\hAC,1>>, <<\h1B,\hBB,1>>, <<\h1F,\hBF,1>>,
  <<\h21,\hC1,26>>, <<\h40,\hE0,19>>, <<\h60,\h30,10>>>>)

iso8859_6_page_uni2charset ==
  (0 :> iso8859_6_page00) @@ (6 :> iso8859_6_page06)
iso8859_6_table == Table("iso8859-6", iso8859_6_charset2uni, iso8859_6_page_uni2charset)

(* iso8859-7: nls_iso8859-7.c *)

iso8859_7_charset2uni == Ascii \o Upper(<< <<\hA0,\hA0,1>>, <<\hA1,\h2BD,1>>,
  <<\hA2,\h2BC,1>>, <<\hA3,\hA3,1>>, <<\hA6,\hA6,4>>, <<\hAB,\hAB,3>>,
  <<\hAF,\h2015,1>>, <<\hB0,\hB0,4>>, <<\hB4,\h384,3>>, <<\hB7,\hB7,1>>,
  <<\hB8,\h388,3>>, <<\hBB,\hBB,1>>, <<\hBC,\h38C,1>>, <<\hBD,\hBD,1>>,
  <<\hBE,\h38E,20>>, <<\hD3,\h3A3,44>>>>)

iso8859_7_page00 == Page(<< <<1,1,127>>, <<\hA0,\hA0,1>>, <<\hA3,\hA3,1>>,
  <<\hA6,\hA6,4>>, <<\hAB,\hAB,3>>, <<\hB0,\hB0,4>>, <<\hB7,\hB7,1>>,
  <<\hBB,\hBB,1>>, <<\hBD,\hBD,1>>>>)
iso8859_7_page02 == Page(<< <<\hBC,\hA2,1>>, <<\hBD,\hA1,1>>>>)
iso8859_7_page03 == Page(<< <<\h84,\hB4,3>>, <<\h88,\hB8,3>>, <<\h8C,\hBC,1>>,
  <<\h8E,\hBE,20>>, <<\hA3,\hD3,44>>>>)
iso8859_7_page20 == Page(<< <<\h15,\hAF,1>>>>)

iso8859_7_page_uni2charset ==
  (0 :> iso8859_7_page00) @@ (2 :> iso8859_7_page02)
  @@ (3 :> iso8859_7_page03) @@ (\h20 :> iso8859_7_page20)
iso8859_7_table == Table("iso8859-7", iso8859_7_charset2uni, iso8859_7_page_uni2charset)

(* iso8859-8: nls_iso8859-8.c *)

iso8859_8_charset2uni == Ascii \o Upper(<< <<\hA0,\hA0,1>>, <<\hA2,\hA2,8>>,
  <<\hAA,\hD7,1>>, <<\hAB,\hAB,4>>, <<\hAF,\h203E,1>>, <<\hB0,\hB0,10>>,
  <<\hBA,\hF7,1>>, <<\hBB,\hBB,4>>, <<\hDF,\h2017,1>>, <<\hE0,\h5D0,27>>>>)

iso8859_8_page00 == Page(<< <<1,1,127>>, <<\hA0,\hA0,1>>, <<\hA2,\hA2,8>>,
  <<\hAB,\hAB,4>>, <<\hB0,\hB0,10>>, <<\hBB,\hBB,4>>, <<\hD7,\hAA,1>>,
  <<\hF7,\hBA,1>>>>)
iso8859_8_page05 == Page(<< <<\hD0,\hE0,27>>>>)
iso8859_8_page20 == Page(<< <<\h17,\hDF,1>>, <<\h3E,\hAF,1>>>>)

iso8859_8_page_uni2charset ==
  (0 :> iso8859_8_page00) @@ (5 :> iso8859_8_page05)
  @@ (\h20 :> iso8859_8_page20)
iso8859_8_table == Table("iso8859-8", iso8859_8_charset2uni, iso8859_8_page_uni2charset)

(* iso8859-9: nls_iso8859-9.c *)

iso8859_9_charset2uni == Ascii \o Upper(<< <<\hA0,\hA0,48>>, <<\hD0,\h11E,1>>,
  <<\hD1,\hD1,12>>, <<\hDD,\h130,1>>, <<\hDE,\h15E,1>>, <<\hDF,\hDF,17>>,
  <<\hF0,\h11F,1>>, <<\hF1,\hF1,12>>, <<\hFD,\h131,1>>, <<\hFE,\h15F,1>>,
  <<\hFF,\hFF,1>>>>)

iso8859_9_page00 == Page(<< <<1,1,127>>, <<\hA0,\hA0,48>>, <<\hD1,\hD1,12>>,
  <<\hDF,\hDF,17>>, <<\hF1,\hF1,12>>, <<\hFF,\hFF,1>>>>)
iso8859_9_page01 == Page(<< <<\h1E,\hD0,1>>, <<\h1F,\hF0,1>>, <<\h30,\hDD,1>>,
  <<\h31,\hFD,1>>, <<\h5E,\hDE,1>>, <<\h5F,\hFE,1>>>>)

iso8859_9_page_uni2charset ==
  (0 :> iso8859_9_page00) @@ (1 :> iso8859_9_page01)
iso8859_9_table == Table("iso8859-9", iso8859_9_charset2uni, iso8859_9_page_uni2charset)

(* koi8-r: nls_koi8-r.c *)

koi8_r_charset2uni == Ascii \o <<
  \h2500, \h2502, \h250C, \h2510, \h2514, \h2518, \h251C, \h2524, \h252C,
  \h2534, \h253C, \h2580, \h2584, \h2588, \h258C, \h2590, \h2591, \h2592,
  \h2593, \h2320, \h25A0, \h2219, \h221A, \h2248, \h2264, \h2265, \hA0,
  \h2321, \hB0, \hB2, \hB7, \hF7, \h2550, \h2551, \h2552, \h451, \h2553,
  \h2554, \h2555, \h2556, \h2557, \h2558, \h2559, \h255A, \h255B, \h255C,
  \h255D, \h255E, \h255F, \h2560, \h2561, \h401, \h2562, \h2563, \h2564,
  \h2565, \h2566, \h2567, \h2568, \h2569, \h256A, \h256B, \h256C, \hA9, \h44E,
  \h430, \h431, \h446, \h434, \h435, \h444, \h433, \h445, \h438, \h439, \h43A,
  \h43B, \h43C, \h43D, \h43E, \h43F, \h44F, \h440, \h441, \h442, \h443, \h436,
  \h432, \h44C, \h44B, \h437, \h448, \h44D, \h449, \h447, \h44A, \h42E, \h410,
  \h411, \h426, \h414, \h415, \h424, \h413, \h425, \h418, \h419, \h41A, \h41B,
  \h41C, \h41D, \h41E, \h41F, \h42F, \h420, \h421, \h422, \h423, \h416, \h412,
  \h42C, \h42B, \h417, \h428, \h42D, \h429, \h427, \h42A>>

koi8_r_page00 == Page(<< <<1,1,127>>, <<\hA0,\h9A,1>>, <<\hA9,\hBF,1>>,
  <<\hB0,\h9C,1>>, <<\hB2,\h9D,1>>, <<\hB7,\h9E,1>>, <<\hF7,\h9F,1>>>>)
koi8_r_page04 == Page(<< <<1,\hB3,1>>, <<\h10,\hE1,2>>, <<\h12,\hF7,1>>,
  <<\h13,\hE7,1>>, <<\h14,\hE4,2>>, <<\h16,\hF6,1>>, <<\h17,\hFA,1>>,
  <<\h18,\hE9,8>>, <<\h20,\hF2,4>>, <<\h24,\hE6,1>>, <<\h25,\hE8,1>>,
  <<\h26,\hE3,1>>, <<\h27,\hFE,1>>, <<\h28,\hFB,1>>, <<\h29,\hFD,1>>,
  <<\h2A,\hFF,1>>, <<\h2B,\hF9,1>>, <<\h2C,\hF8,1>>, <<\h2D,\hFC,1>>,
  <<\h2E,\hE0,1>>, <<\h2F,\hF1,1>>, <<\h30,\hC1,2>>, <<\h32,\hD7,1>>,
  <<\h33,\hC7,1>>, <<\h34,\hC4,2>>, <<\h36,\hD6,1>>, <<\h37,\hDA,1>>,
  <<\h38,\hC9,8>>, <<\h40,\hD2,4>>, <<\h44,\hC6,1>>, <<\h45,\hC8,1>>,
  <<\h46,\hC3,1>>, <<\h47,\hDE,1>>, <<\h48,\hDB,1>>, <<\h49,\hDD,1>>,
  <<\h4A,\hDF,1>>, <<\h4B,\hD9,1>>, <<\h4C,\hD8,1>>, <<\h4D,\hDC,1>>,
  <<\h4E,\hC0,1>>, <<\h4F,\hD1,1>>, <<\h51,\hA3,1>>>>)
koi8_r_page22 == Page(<< <<\h19,\h95,2>>, <<\h48,\h97,1>>, <<\h64,\h98,2>>>>)
koi8_r_page23 == Page(<< <<\h20,\h93,1>>, <<\h21,\h9B,1>>>>)
koi8_r_page25 == Page(<< <<0,\h80,1>>, <<2,\h81,1>>, <<\hC,\h82,1>>,
  <<\h10,\h83,1>>, <<\h14,\h84,1>>, <<\h18,\h85,1>>, <<\h1C,\h86,1>>,
  <<\h24,\h87,1>>, <<\h2C,\h88,1>>, <<\h34,\h89,1>>, <<\h3C,\h8A,1>>,
  <<\h50,\hA0,3>>, <<\h53,\hA4,15>>, <<\h62,\hB4,11>>, <<\h80,\h8B,1>>,
  <<\h84,\h8C,1>>, <<\h88,\h8D,1>>, <<\h8C,\h8E,1>>, <<\h90,\h8F,4>>,
  <<\hA0,\h94,1>>>>)

koi8_r_page_uni2charset ==
  (0 :> koi8_r_page00) @@ (4 :> koi8_r_page04) @@ (\h22 :> koi8_r_page22)
  @@ (\h23 :> koi8_r_page23) @@ (\h25 :> koi8_r_page25)
koi8_r_table == Table("koi8-r", koi8_r_charset2uni, koi8_r_page_uni2charset)

(* mac-roman: nls_mac-roman.c *)

mac_roman_charset2uni == Ascii \o <<
  \hC4, \hC5, \hC7, \hC9, \hD1, \hD6, \hDC, \hE1, \hE0, \hE2, \hE4, \hE3,
  \hE5, \hE7, \hE9, \hE8, \hEA, \hEB, \hED, \hEC, \hEE, \hEF, \hF1, \hF3,
  \hF2, \hF4, \hF6, \hF5, \hFA, \hF9, \hFB, \hFC, \h2020, \hB0, \hA2, \hA3,
  \hA7, \h2022, \hB6, \hDF, \hAE, \hA9, \h2122, \hB4, \hA8, \h2260, \hC6,
  \hD8, \h221E, \hB1, \h2264, \h2265, \hA5, \hB5, \h2202, \h2211, \h220F,
  \h3C0, \h222B, \hAA, \hBA, \h3A9, \hE6, \hF8, \hBF, \hA1, \hAC, \h221A,
  \h192, \h2248, \h2206, \hAB, \hBB, \h2026, \hA0, \hC0, \hC3, \hD5, \h152,
  \h153, \h2013, \h2014, \h201C, \h201D, \h2018, \h2019, \hF7, \h25CA, \hFF,
  \h178, \h2044, \h20AC, \h2039, \h203A, \hFB01, \hFB02, \h2021, \hB7, \h201A,
  \h201E, \h2030, \hC2, \hCA, \hC1, \hCB, \hC8, \hCD, \hCE, \hCF, \hCC, \hD3,
  \hD4, \hF8FF, \hD2, \hDA, \hDB, \hD9, \h131, \h2C6, \h2DC, \hAF, \h2D8,
  \h2D9, \h2DA, \hB8, \h2DD, \h2DB, \h2C7>>

mac_roman_page00 == Page(<< <<1,1,127>>, <<\hA0,\hCA,1>>, <<\hA1,\hC1,1>>,
  <<\hA2,\hA2,2>>, <<\hA5,\hB4,1>>, <<\hA7,\hA4,1>>, <<\hA8,\hAC,1>>,
  <<\hA9,\hA9,1>>, <<\hAA,\hBB,1>>, <<\hAB,\hC7,1>>, <<\hAC,\hC2,1>>,
  <<\hAE,\hA8,1>>, <<\hAF,\hF8,1>>, <<\hB0,\hA1,1>>, <<\hB1,\hB1,1>>,
  <<\hB4,\hAB,1>>, <<\hB5,\hB5,1>>, <<\hB6,\hA6,1>>, <<\hB7,\hE1,1>>,
  <<\hB8,\hFC,1>>, <<\hBA,\hBC,1>>, <<\hBB,\hC8,1>>, <<\hBF,\hC0,1>>,
  <<\hC0,\hCB,1>>, <<\hC1,\hE7,1>>, <<\hC2,\hE5,1>>, <<\hC3,\hCC,1>>,
  <<\hC4,\h80,2>>, <<\hC6,\hAE,1>>, <<\hC7,\h82,1>>, <<\hC8,\hE9,1>>,
  <<\hC9,\h83,1>>, <<\hCA,\hE6,1>>, <<\hCB,\hE8,1>>, <<\hCC,\hED,1>>,
  <<\hCD,\hEA,3>>, <<\hD1,\h84,1>>, <<\hD2,\hF1,1>>, <<\hD3,\hEE,2>>,
  <<\hD5,\hCD,1>>, <<\hD6,\h85,1>>, <<\hD8,\hAF,1>>, <<\hD9,\hF4,1>>,
  <<\hDA,\hF2,2>>, <<\hDC,\h86,1>>, <<\hDF,\hA7,1>>, <<\hE0,\h88,1>>,
  <<\hE1,\h87,1>>, <<\hE2,\h89,1>>, <<\hE3,\h8B,1>>, <<\hE4,\h8A,1>>,
  <<\hE5,\h8C,1>>, <<\hE6,\hBE,1>>, <<\hE7,\h8D,1>>, <<\hE8,\h8F,1>>,
  <<\hE9,\h8E,1>>, <<\hEA,\h90,2>>, <<\hEC,\h93,1>>, <<\hED,\h92,1>>,
  <<\hEE,\h94,2>>, <<\hF1,\h96,1>>, <<\hF2,\h98,1>>, <<\hF3,\h97,1>>,
  <<\hF4,\h99,1>>, <<\hF5,\h9B,1>>, <<\hF6,\h9A,1>>, <<\hF7,\hD6,1>>,
  <<\hF8,\hBF,1>>, <<\hF9,\h9D,1>>, <<\hFA,\h9C,1>>, <<\hFB,\h9E,2>>,
  <<\hFF,\hD8,1>>>>)
mac_roman_page01 == Page(<< <<\h31,\hF5,1>>, <<\h52,\hCE,2>>, <<\h78,\hD9,1>>,
  <<\h92,\hC4,1>>>>)
mac_roman_page02 == Page(<< <<\hC6,\hF6,1>>, <<\hC7,\hFF,1>>, <<\hD8,\hF9,3>>,
  <<\hDB,\hFE,1>>, <<\hDC,\hF7,1>>, <<\hDD,\hFD,1>>>>)
mac_roman_page03 == Page(<< <<\hA9,\hBD,1>>, <<\hC0,\hB9,1>>>>)
mac_roman_page20 == Page(<< <<\h13,\hD0,2>>, <<\h18,\hD4,2>>, <<\h1A,\hE2,1>>,
  <<\h1C,\hD2,2>>, <<\h1E,\hE3,1>>, <<\h20,\hA0,1>>, <<\h21,\hE0,1>>,
  <<\h22,\hA5,1>>, <<\h26,\hC9,1>>, <<\h30,\hE4,1>>, <<\h39,\hDC,2>>,
  <<\h44,\hDA,1>>, <<\hAC,\hDB,1>>>>)
mac_roman_page21 == Page(<< <<\h22,\hAA,1>>>>)
mac_roman_page22 == Page(<< <<2,\hB6,1>>, <<6,\hC6,1>>, <<\hF,\hB8,1>>,
  <<\h11,\hB7,1>>, <<\h1A,\hC3,1>>, <<\h1E,\hB0,1>>, <<\h2B,\hBA,1>>,
  <<\h48,\hC5,1>>, <<\h60,\hAD,1>>, <<\h64,\hB2,2>>>>)
mac_roman_page25 == Page(<< <<\hCA,\hD7,1>>>>)
mac_roman_pagef8 == Page(<< <<\hFF,\hF0,1>>>>)
mac_roman_pagefb == Page(<< <<1,\hDE,2>>>>)

mac_roman_page_uni2charset ==
  (0 :> mac_roman_page00) @@ (1 :> mac_roman_page01)
  @@ (2 :> mac_roman_page02) @@ (3 :> mac_roman_page03)
  @@ (\h20 :> mac_roman_page20) @@ (\h21 :> mac_roman_page21)
  @@ (\h22 :> mac_roman_page22) @@ (\h25 :> mac_roman_page25)
  @@ (\hF8 :> mac_roman_pagef8) @@ (\hFB :> mac_roman_pagefb)
mac_roman_table == Table("mac-roman", mac_roman_charset2uni, mac_roman_page_uni2charset)
=============================================================================
