------------------------------- MODULE NlsDos -------------------------------
(* The translation tables of the code pages of PCs (libunls/nls_cp*.c).     *)
EXTENDS NlsTables

(* cp437: nls_cp437.c *)

cp437_charset2uni == Ascii \o <<
  \hC7, \hFC, \hE9, \hE2, \hE4, \hE0, \hE5, \hE7, \hEA, \hEB, \hE8, \hEF,
  \hEE, \hEC, \hC4, \hC5, \hC9, \hE6, \hC6, \hF4, \hF6, \hF2, \hFB, \hF9,
  \hFF, \hD6, \hDC, \hA2, \hA3, \hA5, \h20A7, \h192, \hE1, \hED, \hF3, \hFA,
  \hF1, \hD1, \hAA, \hBA, \hBF, \h2310, \hAC, \hBD, \hBC, \hA1, \hAB, \hBB,
  \h2591, \h2592, \h2593, \h2502, \h2524, \h2561, \h2562, \h2556, \h2555,
  \h2563, \h2551, \h2557, \h255D, \h255C, \h255B, \h2510, \h2514, \h2534,
  \h252C, \h251C, \h2500, \h253C, \h255E, \h255F, \h255A, \h2554, \h2569,
  \h2566, \h2560, \h2550, \h256C, \h2567, \h2568, \h2564, \h2565, \h2559,
  \h2558, \h2552, \h2553, \h256B, \h256A, \h2518, \h250C, \h2588, \h2584,
  \h258C, \h2590, \h2580, \h3B1, \hDF, \h393, \h3C0, \h3A3, \h3C3, \hB5,
  \h3C4, \h3A6, \h398, \h3A9, \h3B4, \h221E, \h3C6, \h3B5, \h2229, \h2261,
  \hB1, \h2265, \h2264, \h2320, \h2321, \hF7, \h2248, \hB0, \h2219, \hB7,
  \h221A, \h207F, \hB2, \h25A0, \hA0>>

cp437_page00 == Page(<< <<1,1,127>>, <<\hA0,\hFF,1>>, <<\hA1,\hAD,1>>,
  <<\hA2,\h9B,2>>, <<\hA5,\h9D,1>>, <<\hAA,\hA6,1>>, <<\hAB,\hAE,1>>,
  <<\hAC,\hAA,1>>, <<\hB0,\hF8,1>>, <<\hB1,\hF1,1>>, <<\hB2,\hFD,1>>,
  <<\hB5,\hE6,1>>, <<\hB7,\hFA,1>>, <<\hBA,\hA7,1>>, <<\hBB,\hAF,1>>,
  <<\hBC,\hAC,1>>, <<\hBD,\hAB,1>>, <<\hBF,\hA8,1>>, <<\hC4,\h8E,2>>,
  <<\hC6,\h92,1>>, <<\hC7,\h80,1>>, <<\hC9,\h90,1>>, <<\hD1,\hA5,1>>,
  <<\hD6,\h99,1>>, <<\hDC,\h9A,1>>, <<\hDF,\hE1,1>>, <<\hE0,\h85,1>>,
  <<\hE1,\hA0,1>>, <<\hE2,\h83,1>>, <<\hE4,\h84,1>>, <<\hE5,\h86,1>>,
  <<\hE6,\h91,1>>, <<\hE7,\h87,1>>, <<\hE8,\h8A,1>>, <<\hE9,\h82,1>>,
  <<\hEA,\h88,2>>, <<\hEC,\h8D,1>>, <<\hED,\hA1,1>>, <<\hEE,\h8C,1>>,
  <<\hEF,\h8B,1>>, <<\hF1,\hA4,1>>, <<\hF2,\h95,1>>, <<\hF3,\hA2,1>>,
  <<\hF4,\h93,1>>, <<\hF6,\h94,1>>, <<\hF7,\hF6,1>>, <<\hF9,\h97,1>>,
  <<\hFA,\hA3,1>>, <<\hFB,\h96,1>>, <<\hFC,\h81,1>>, <<\hFF,\h98,1>>>>)
cp437_page01 == Page(<< <<\h92,\h9F,1>>>>)
cp437_page03 == Page(<< <<\h93,\hE2,1>>, <<\h98,\hE9,1>>, <<\hA3,\hE4,1>>,
  <<\hA6,\hE8,1>>, <<\hA9,\hEA,1>>, <<\hB1,\hE0,1>>, <<\hB4,\hEB,1>>,
  <<\hB5,\hEE,1>>, <<\hC0,\hE3,1>>, <<\hC3,\hE5,1>>, <<\hC4,\hE7,1>>,
  <<\hC6,\hED,1>>>>)
cp437_page20 == Page(<< <<\h7F,\hFC,1>>, <<\hA7,\h9E,1>>>>)
cp437_page22 == Page(<< <<\h19,\hF9,1>>, <<\h1A,\hFB,1>>, <<\h1E,\hEC,1>>,
  <<\h29,\hEF,1>>, <<\h48,\hF7,1>>, <<\h61,\hF0,1>>, <<\h64,\hF3,1>>,
  <<\h65,\hF2,1>>>>)
cp437_page23 == Page(<< <<\h10,\hA9,1>>, <<\h20,\hF4,2>>>>)
cp437_page25 == Page(<< <<0,\hC4,1>>, <<2,\hB3,1>>, <<\hC,\hDA,1>>,
  <<\h10,\hBF,1>>, <<\h14,\hC0,1>>, <<\h18,\hD9,1>>, <<\h1C,\hC3,1>>,
  <<\h24,\hB4,1>>, <<\h2C,\hC2,1>>, <<\h34,\hC1,1>>, <<\h3C,\hC5,1>>,
  <<\h50,\hCD,1>>, <<\h51,\hBA,1>>, <<\h52,\hD5,2>>, <<\h54,\hC9,1>>,
  <<\h55,\hB8,1>>, <<\h56,\hB7,1>>, <<\h57,\hBB,1>>, <<\h58,\hD4,1>>,
  <<\h59,\hD3,1>>, <<\h5A,\hC8,1>>, <<\h5B,\hBE,1>>, <<\h5C,\hBD,1>>,
  <<\h5D,\hBC,1>>, <<\h5E,\hC6,2>>, <<\h60,\hCC,1>>, <<\h61,\hB5,2>>,
  <<\h63,\hB9,1>>, <<\h64,\hD1,2>>, <<\h66,\hCB,1>>, <<\h67,\hCF,2>>,
  <<\h69,\hCA,1>>, <<\h6A,\hD8,1>>, <<\h6B,\hD7,1>>, <<\h6C,\hCE,1>>,
  <<\h80,\hDF,1>>, <<\h84,\hDC,1>>, <<\h88,\hDB,1>>, <<\h8C,\hDD,1>>,
  <<\h90,\hDE,1>>, <<\h91,\hB0,3>>, <<\hA0,\hFE,1>>>>)

cp437_page_uni2charset ==
  (0 :> cp437_page00) @@ (1 :> cp437_page01) @@ (3 :> cp437_page03)
  @@ (\h20 :> cp437_page20) @@ (\h22 :> cp437_page22)
  @@ (\h23 :> cp437_page23) @@ (\h25 :> cp437_page25)
cp437_table == Table("cp437", cp437_charset2uni, cp437_page_uni2charset)

(* cp737: nls_cp737.c *)

cp737_charset2uni == Ascii \o <<
  \h391, \h392, \h393, \h394, \h395, \h396, \h397, \h398, \h399, \h39A, \h39B,
  \h39C, \h39D, \h39E, \h39F, \h3A0, \h3A1, \h3A3, \h3A4, \h3A5, \h3A6, \h3A7,
  \h3A8, \h3A9, \h3B1, \h3B2, \h3B3, \h3B4, \h3B5, \h3B6, \h3B7, \h3B8, \h3B9,
  \h3BA, \h3BB, \h3BC, \h3BD, \h3BE, \h3BF, \h3C0, \h3C1, \h3C3, \h3C2, \h3C4,
  \h3C5, \h3C6, \h3C7, \h3C8, \h2591, \h2592, \h2593, \h2502, \h2524, \h2561,
  \h2562, \h2556, \h2555, \h2563, \h2551, \h2557, \h255D, \h255C, \h255B,
  \h2510, \h2514, \h2534, \h252C, \h251C, \h2500, \h253C, \h255E, \h255F,
  \h255A, \h2554, \h2569, \h2566, \h2560, \h2550, \h256C, \h2567, \h2568,
  \h2564, \h2565, \h2559, \h2558, \h2552, \h2553, \h256B, \h256A, \h2518,
  \h250C, \h2588, \h2584, \h258C, \h2590, \h2580, \h3C9, \h3AC, \h3AD, \h3AE,
  \h3CA, \h3AF, \h3CC, \h3CD, \h3CB, \h3CE, \h386, \h388, \h389, \h38A, \h38C,
  \h38E, \h38F, \hB1, \h2265, \h2264, \h3AA, \h3AB, \hF7, \h2248, \hB0,
  \h2219, \hB7, \h221A, \h207F, \hB2, \h25A0, \hA0>>

cp737_page00 == Page(<< <<1,1,127>>, <<\hA0,\hFF,1>>, <<\hB0,\hF8,1>>,
  <<\hB1,\hF1,1>>, <<\hB2,\hFD,1>>, <<\hB7,\hFA,1>>, <<\hF7,\hF6,1>>>>)
cp737_page03 == Page(<< <<\h86,\hEA,1>>, <<\h88,\hEB,3>>, <<\h8C,\hEE,1>>,
  <<\h8E,\hEF,2>>, <<\h91,\h80,17>>, <<\hA3,\h91,7>>, <<\hAA,\hF4,2>>,
  <<\hAC,\hE1,3>>, <<\hAF,\hE5,1>>, <<\hB1,\h98,17>>, <<\hC2,\hAA,1>>,
  <<\hC3,\hA9,1>>, <<\hC4,\hAB,5>>, <<\hC9,\hE0,1>>, <<\hCA,\hE4,1>>,
  <<\hCB,\hE8,1>>, <<\hCC,\hE6,2>>, <<\hCE,\hE9,1>>>>)
cp737_page20 == Page(<< <<\h7F,\hFC,1>>>>)
cp737_page22 == Page(<< <<\h19,\hF9,1>>, <<\h1A,\hFB,1>>, <<\h48,\hF7,1>>,
  <<\h64,\hF3,1>>, <<\h65,\hF2,1>>>>)
cp737_page25 == Page(<< <<0,\hC4,1>>, <<2,\hB3,1>>, <<\hC,\hDA,1>>,
  <<\h10,\hBF,1>>, <<\h14,\hC0,1>>, <<\h18,\hD9,1>>, <<\h1C,\hC3,1>>,
  <<\h24,\hB4,1>>, <<\h2C,\hC2,1>>, <<\h34,\hC1,1>>, <<\h3C,\hC5,1>>,
  <<\h50,\hCD,1>>, <<\h51,\hBA,1>>, <<\h52,\hD5,2>>, <<\h54,\hC9,1>>,
  <<\h55,\hB8,1>>, <<\h56,\hB7,1>>, <<\h57,\hBB,1>>, <<\h58,\hD4,1>>,
  <<\h59,\hD3,1>>, <<\h5A,\hC8,1>>, <<\h5B,\hBE,1>>, <<\h5C,\hBD,1>>,
  <<\h5D,\hBC,1>>, <<\h5E,\hC6,2>>, <<\h60,\hCC,1>>, <<\h61,\hB5,2>>,
  <<\h63,\hB9,1>>, <<\h64,\hD1,2>>, <<\h66,\hCB,1>>, <<\h67,\hCF,2>>,
  <<\h69,\hCA,1>>, <<\h6A,\hD8,1>>, <<\h6B,\hD7,1>>, <<\h6C,\hCE,1>>,
  <<\h80,\hDF,1>>, <<\h84,\hDC,1>>, <<\h88,\hDB,1>>, <<\h8C,\hDD,1>>,
  <<\h90,\hDE,1>>, <<\h91,\hB0,3>>, <<\hA0,\hFE,1>>>>)

cp737_page_uni2charset ==
  (0 :> cp737_page00) @@ (3 :> cp737_page03) @@ (\h20 :> cp737_page20)
  @@ (\h22 :> cp737_page22) @@ (\h25 :> cp737_page25)
cp737_table == Table("cp737", cp737_charset2uni, cp737_page_uni2charset)

(* cp775: nls_cp775.c *)

cp775_charset2uni == Ascii \o <<
  \h106, \hFC, \hE9, \h101, \hE4, \h123, \hE5, \h107, \h142, \h113, \h156,
  \h157, \h12B, \h179, \hC4, \hC5, \hC9, \hE6, \hC6, \h14D, \hF6, \h122, \hA2,
  \h15A, \h15B, \hD6, \hDC, \hF8, \hA3, \hD8, \hD7, \hA4, \h100, \h12A, \hF3,
  \h17B, \h17C, \h17A, \h201D, \hA6, \hA9, \hAE, \hAC, \hBD, \hBC, \h141,
  \hAB, \hBB, \h2591, \h2592, \h2593, \h2502, \h2524, \h104, \h10C, \h118,
  \h116, \h2563, \h2551, \h2557, \h255D, \h12E, \h160, \h2510, \h2514, \h2534,
  \h252C, \h251C, \h2500, \h253C, \h172, \h16A, \h255A, \h2554, \h2569,
  \h2566, \h2560, \h2550, \h256C, \h17D, \h105, \h10D, \h119, \h117, \h12F,
  \h161, \h173, \h16B, \h17E, \h2518, \h250C, \h2588, \h2584, \h258C, \h2590,
  \h2580, \hD3, \hDF, \h14C, \h143, \hF5, \hD5, \hB5, \h144, \h136, \h137,
  \h13B, \h13C, \h146, \h112, \h145, \h2019, \hAD, \hB1, \h201C, \hBE, \hB6,
  \hA7, \hF7, \h201E, \hB0, \h2219, \hB7, \hB9, \hB3, \hB2, \h25A0, \hA0>>

cp775_page00 == Page(<< <<1,1,127>>, <<\hA0,\hFF,1>>, <<\hA2,\h96,1>>,
  <<\hA3,\h9C,1>>, <<\hA4,\h9F,1>>, <<\hA6,\hA7,1>>, <<\hA7,\hF5,1>>,
  <<\hA9,\hA8,1>>, <<\hAB,\hAE,1>>, <<\hAC,\hAA,1>>, <<\hAD,\hF0,1>>,
  <<\hAE,\hA9,1>>, <<\hB0,\hF8,1>>, <<\hB1,\hF1,1>>, <<\hB2,\hFD,1>>,
  <<\hB3,\hFC,1>>, <<\hB5,\hE6,1>>, <<\hB6,\hF4,1>>, <<\hB7,\hFA,1>>,
  <<\hB9,\hFB,1>>, <<\hBB,\hAF,1>>, <<\hBC,\hAC,1>>, <<\hBD,\hAB,1>>,
  <<\hBE,\hF3,1>>, <<\hC4,\h8E,2>>, <<\hC6,\h92,1>>, <<\hC9,\h90,1>>,
  <<\hD3,\hE0,1>>, <<\hD5,\hE5,1>>, <<\hD6,\h99,1>>, <<\hD7,\h9E,1>>,
  <<\hD8,\h9D,1>>, <<\hDC,\h9A,1>>, <<\hDF,\hE1,1>>, <<\hE4,\h84,1>>,
  <<\hE5,\h86,1>>, <<\hE6,\h91,1>>, <<\hE9,\h82,1>>, <<\hF3,\hA2,1>>,
  <<\hF5,\hE4,1>>, <<\hF6,\h94,1>>, <<\hF7,\hF6,1>>, <<\hF8,\h9B,1>>,
  <<\hFC,\h81,1>>>>)
cp775_page01 == Page(<< <<0,\hA0,1>>, <<1,\h83,1>>, <<4,\hB5,1>>,
  <<5,\hD0,1>>, <<6,\h80,1>>, <<7,\h87,1>>, <<\hC,\hB6,1>>, <<\hD,\hD1,1>>,
  <<\h12,\hED,1>>, <<\h13,\h89,1>>, <<\h16,\hB8,1>>, <<\h17,\hD3,1>>,
  <<\h18,\hB7,1>>, <<\h19,\hD2,1>>, <<\h22,\h95,1>>, <<\h23,\h85,1>>,
  <<\h2A,\hA1,1>>, <<\h2B,\h8C,1>>, <<\h2E,\hBD,1>>, <<\h2F,\hD4,1>>,
  <<\h36,\hE8,2>>, <<\h3B,\hEA,2>>, <<\h41,\hAD,1>>, <<\h42,\h88,1>>,
  <<\h43,\hE3,1>>, <<\h44,\hE7,1>>, <<\h45,\hEE,1>>, <<\h46,\hEC,1>>,
  <<\h4C,\hE2,1>>, <<\h4D,\h93,1>>, <<\h56,\h8A,2>>, <<\h5A,\h97,2>>,
  <<\h60,\hBE,1>>, <<\h61,\hD5,1>>, <<\h6A,\hC7,1>>, <<\h6B,\hD7,1>>,
  <<\h72,\hC6,1>>, <<\h73,\hD6,1>>, <<\h79,\h8D,1>>, <<\h7A,\hA5,1>>,
  <<\h7B,\hA3,2>>, <<\h7D,\hCF,1>>, <<\h7E,\hD8,1>>>>)
cp775_page20 == Page(<< <<\h19,\hEF,1>>, <<\h1C,\hF2,1>>, <<\h1D,\hA6,1>>,
  <<\h1E,\hF7,1>>>>)
cp775_page22 == Page(<< <<\h19,\hF9,1>>>>)
cp775_page25 == Page(<< <<0,\hC4,1>>, <<2,\hB3,1>>, <<\hC,\hDA,1>>,
  <<\h10,\hBF,1>>, <<\h14,\hC0,1>>, <<\h18,\hD9,1>>, <<\h1C,\hC3,1>>,
  <<\h24,\hB4,1>>, <<\h2C,\hC2,1>>, <<\h34,\hC1,1>>, <<\h3C,\hC5,1>>,
  <<\h50,\hCD,1>>, <<\h51,\hBA,1>>, <<\h54,\hC9,1>>, <<\h57,\hBB,1>>,
  <<\h5A,\hC8,1>>, <<\h5D,\hBC,1>>, <<\h60,\hCC,1>>, <<\h63,\hB9,1>>,
  <<\h66,\hCB,1>>, <<\h69,\hCA,1>>, <<\h6C,\hCE,1>>, <<\h80,\hDF,1>>,
  <<\h84,\hDC,1>>, <<\h88,\hDB,1>>, <<\h8C,\hDD,1>>, <<\h90,\hDE,1>>,
  <<\h91,\hB0,3>>, <<\hA0,\hFE,1>>>>)

cp775_page_uni2charset ==
  (0 :> cp775_page00) @@ (1 :> cp775_page01) @@ (\h20 :> cp775_page20)
  @@ (\h22 :> cp775_page22) @@ (\h25 :> cp775_page25)
cp775_table == Table("cp775", cp775_charset2uni, cp775_page_uni2charset)

(* cp850: nls_cp850.c *)

cp850_charset2uni == Ascii \o <<
  \hC7, \hFC, \hE9, \hE2, \hE4, \hE0, \hE5, \hE7, \hEA, \hEB, \hE8, \hEF,
  \hEE, \hEC, \hC4, \hC5, \hC9, \hE6, \hC6, \hF4, \hF6, \hF2, \hFB, \hF9,
  \hFF, \hD6, \hDC, \hF8, \hA3, \hD8, \hD7, \h192, \hE1, \hED, \hF3, \hFA,
  \hF1, \hD1, \hAA, \hBA, \hBF, \hAE, \hAC, \hBD, \hBC, \hA1, \hAB, \hBB,
  \h2591, \h2592, \h2593, \h2502, \h2524, \hC1, \hC2, \hC0, \hA9, \h2563,
  \h2551, \h2557, \h255D, \hA2, \hA5, \h2510, \h2514, \h2534, \h252C, \h251C,
  \h2500, \h253C, \hE3, \hC3, \h255A, \h2554, \h2569, \h2566, \h2560, \h2550,
  \h256C, \hA4, \hF0, \hD0, \hCA, \hCB, \hC8, \h131, \hCD, \hCE, \hCF, \h2518,
  \h250C, \h2588, \h2584, \hA6, \hCC, \h2580, \hD3, \hDF, \hD4, \hD2, \hF5,
  \hD5, \hB5, \hFE, \hDE, \hDA, \hDB, \hD9, \hFD, \hDD, \hAF, \hB4, \hAD,
  \hB1, \h2017, \hBE, \hB6, \hA7, \hF7, \hB8, \hB0, \hA8, \hB7, \hB9, \hB3,
  \hB2, \h25A0, \hA0>>

\* Mutation: U+00E9 and U+00EA have been given each other's byte.
cp850_page00_exchanged == Page(<<<<1,1,127>>, <<\hE9,\h88,1>>, <<\hEA,\h82,1>>>>)

cp850_page00 == Page(<< <<1,1,127>>, <<\hA0,\hFF,1>>, <<\hA1,\hAD,1>>,
  <<\hA2,\hBD,1>>, <<\hA3,\h9C,1>>, <<\hA4,\hCF,1>>, <<\hA5,\hBE,1>>,
  <<\hA6,\hDD,1>>, <<\hA7,\hF5,1>>, <<\hA8,\hF9,1>>, <<\hA9,\hB8,1>>,
  <<\hAA,\hA6,1>>, <<\hAB,\hAE,1>>, <<\hAC,\hAA,1>>, <<\hAD,\hF0,1>>,
  <<\hAE,\hA9,1>>, <<\hAF,\hEE,1>>, <<\hB0,\hF8,1>>, <<\hB1,\hF1,1>>,
  <<\hB2,\hFD,1>>, <<\hB3,\hFC,1>>, <<\hB4,\hEF,1>>, <<\hB5,\hE6,1>>,
  <<\hB6,\hF4,1>>, <<\hB7,\hFA,1>>, <<\hB8,\hF7,1>>, <<\hB9,\hFB,1>>,
  <<\hBA,\hA7,1>>, <<\hBB,\hAF,1>>, <<\hBC,\hAC,1>>, <<\hBD,\hAB,1>>,
  <<\hBE,\hF3,1>>, <<\hBF,\hA8,1>>, <<\hC0,\hB7,1>>, <<\hC1,\hB5,2>>,
  <<\hC3,\hC7,1>>, <<\hC4,\h8E,2>>, <<\hC6,\h92,1>>, <<\hC7,\h80,1>>,
  <<\hC8,\hD4,1>>, <<\hC9,\h90,1>>, <<\hCA,\hD2,2>>, <<\hCC,\hDE,1>>,
  <<\hCD,\hD6,3>>, <<\hD0,\hD1,1>>, <<\hD1,\hA5,1>>, <<\hD2,\hE3,1>>,
  <<\hD3,\hE0,1>>, <<\hD4,\hE2,1>>, <<\hD5,\hE5,1>>, <<\hD6,\h99,1>>,
  <<\hD7,\h9E,1>>, <<\hD8,\h9D,1>>, <<\hD9,\hEB,1>>, <<\hDA,\hE9,2>>,
  <<\hDC,\h9A,1>>, <<\hDD,\hED,1>>, <<\hDE,\hE8,1>>, <<\hDF,\hE1,1>>,
  <<\hE0,\h85,1>>, <<\hE1,\hA0,1>>, <<\hE2,\h83,1>>, <<\hE3,\hC6,1>>,
  <<\hE4,\h84,1>>, <<\hE5,\h86,1>>, <<\hE6,\h91,1>>, <<\hE7,\h87,1>>,
  <<\hE8,\h8A,1>>, <<\hE9,\h82,1>>, <<\hEA,\h88,2>>, <<\hEC,\h8D,1>>,
  <<\hED,\hA1,1>>, <<\hEE,\h8C,1>>, <<\hEF,\h8B,1>>, <<\hF0,\hD0,1>>,
  <<\hF1,\hA4,1>>, <<\hF2,\h95,1>>, <<\hF3,\hA2,1>>, <<\hF4,\h93,1>>,
  <<\hF5,\hE4,1>>, <<\hF6,\h94,1>>, <<\hF7,\hF6,1>>, <<\hF8,\h9B,1>>,
  <<\hF9,\h97,1>>, <<\hFA,\hA3,1>>, <<\hFB,\h96,1>>, <<\hFC,\h81,1>>,
  <<\hFD,\hEC,1>>, <<\hFE,\hE7,1>>, <<\hFF,\h98,1>>>>)
cp850_page01 == Page(<< <<\h31,\hD5,1>>, <<\h92,\h9F,1>>>>)
cp850_page20 == Page(<< <<\h17,\hF2,1>>>>)
cp850_page25 == Page(<< <<0,\hC4,1>>, <<2,\hB3,1>>, <<\hC,\hDA,1>>,
  <<\h10,\hBF,1>>, <<\h14,\hC0,1>>, <<\h18,\hD9,1>>, <<\h1C,\hC3,1>>,
  <<\h24,\hB4,1>>, <<\h2C,\hC2,1>>, <<\h34,\hC1,1>>, <<\h3C,\hC5,1>>,
  <<\h50,\hCD,1>>, <<\h51,\hBA,1>>, <<\h54,\hC9,1>>, <<\h57,\hBB,1>>,
  <<\h5A,\hC8,1>>, <<\h5D,\hBC,1>>, <<\h60,\hCC,1>>, <<\h63,\hB9,1>>,
  <<\h66,\hCB,1>>, <<\h69,\hCA,1>>, <<\h6C,\hCE,1>>, <<\h80,\hDF,1>>,
  <<\h84,\hDC,1>>, <<\h88,\hDB,1>>, <<\h91,\hB0,3>>, <<\hA0,\hFE,1>>>>)

cp850_page_uni2charset ==
  (0 :> cp850_page00) @@ (1 :> cp850_page01) @@ (\h20 :> cp850_page20)
  @@ (\h25 :> cp850_page25)
cp850_table == Table("cp850", cp850_charset2uni, cp850_page_uni2charset)

(* cp852: nls_cp852.c *)

cp852_charset2uni == Ascii \o <<
  \hC7, \hFC, \hE9, \hE2, \hE4, \h16F, \h107, \hE7, \h142, \hEB, \h150, \h151,
  \hEE, \h179, \hC4, \h106, \hC9, \h139, \h13A, \hF4, \hF6, \h13D, \h13E,
  \h15A, \h15B, \hD6, \hDC, \h164, \h165, \h141, \hD7, \h10D, \hE1, \hED,
  \hF3, \hFA, \h104, \h105, \h17D, \h17E, \h118, \h119, \hAC, \h17A, \h10C,
  \h15F, \hAB, \hBB, \h2591, \h2592, \h2593, \h2502, \h2524, \hC1, \hC2,
  \h11A, \h15E, \h2563, \h2551, \h2557, \h255D, \h17B, \h17C, \h2510, \h2514,
  \h2534, \h252C, \h251C, \h2500, \h253C, \h102, \h103, \h255A, \h2554,
  \h2569, \h2566, \h2560, \h2550, \h256C, \hA4, \h111, \h110, \h10E, \hCB,
  \h10F, \h147, \hCD, \hCE, \h11B, \h2518, \h250C, \h2588, \h2584, \h162,
  \h16E, \h2580, \hD3, \hDF, \hD4, \h143, \h144, \h148, \h160, \h161, \h154,
  \hDA, \h155, \h170, \hFD, \hDD, \h163, \hB4, \hAD, \h2DD, \h2DB, \h2C7,
  \h2D8, \hA7, \hF7, \hB8, \hB0, \hA8, \h2D9, \h171, \h158, \h159, \h25A0,
  \hA0>>

cp852_page00 == Page(<< <<1,1,127>>, <<\hA0,\hFF,1>>, <<\hA4,\hCF,1>>,
  <<\hA7,\hF5,1>>, <<\hA8,\hF9,1>>, <<\hAB,\hAE,1>>, <<\hAC,\hAA,1>>,
  <<\hAD,\hF0,1>>, <<\hB0,\hF8,1>>, <<\hB4,\hEF,1>>, <<\hB8,\hF7,1>>,
  <<\hBB,\hAF,1>>, <<\hC1,\hB5,2>>, <<\hC4,\h8E,1>>, <<\hC7,\h80,1>>,
  <<\hC9,\h90,1>>, <<\hCB,\hD3,1>>, <<\hCD,\hD6,2>>, <<\hD3,\hE0,1>>,
  <<\hD4,\hE2,1>>, <<\hD6,\h99,1>>, <<\hD7,\h9E,1>>, <<\hDA,\hE9,1>>,
  <<\hDC,\h9A,1>>, <<\hDD,\hED,1>>, <<\hDF,\hE1,1>>, <<\hE1,\hA0,1>>,
  <<\hE2,\h83,1>>, <<\hE4,\h84,1>>, <<\hE7,\h87,1>>, <<\hE9,\h82,1>>,
  <<\hEB,\h89,1>>, <<\hED,\hA1,1>>, <<\hEE,\h8C,1>>, <<\hF3,\hA2,1>>,
  <<\hF4,\h93,1>>, <<\hF6,\h94,1>>, <<\hF7,\hF6,1>>, <<\hFA,\hA3,1>>,
  <<\hFC,\h81,1>>, <<\hFD,\hEC,1>>>>)
cp852_page01 == Page(<< <<2,\hC6,2>>, <<4,\hA4,2>>, <<6,\h8F,1>>,
  <<7,\h86,1>>, <<\hC,\hAC,1>>, <<\hD,\h9F,1>>, <<\hE,\hD2,1>>,
  <<\hF,\hD4,1>>, <<\h10,\hD1,1>>, <<\h11,\hD0,1>>, <<\h18,\hA8,2>>,
  <<\h1A,\hB7,1>>, <<\h1B,\hD8,1>>, <<\h39,\h91,2>>, <<\h3D,\h95,2>>,
  <<\h41,\h9D,1>>, <<\h42,\h88,1>>, <<\h43,\hE3,2>>, <<\h47,\hD5,1>>,
  <<\h48,\hE5,1>>, <<\h50,\h8A,2>>, <<\h54,\hE8,1>>, <<\h55,\hEA,1>>,
  <<\h58,\hFC,2>>, <<\h5A,\h97,2>>, <<\h5E,\hB8,1>>, <<\h5F,\hAD,1>>,
  <<\h60,\hE6,2>>, <<\h62,\hDD,1>>, <<\h63,\hEE,1>>, <<\h64,\h9B,2>>,
  <<\h6E,\hDE,1>>, <<\h6F,\h85,1>>, <<\h70,\hEB,1>>, <<\h71,\hFB,1>>,
  <<\h79,\h8D,1>>, <<\h7A,\hAB,1>>, <<\h7B,\hBD,2>>, <<\h7D,\hA6,2>>>>)
cp852_page02 == Page(<< <<\hC7,\hF3,1>>, <<\hD8,\hF4,1>>, <<\hD9,\hFA,1>>,
  <<\hDB,\hF2,1>>, <<\hDD,\hF1,1>>>>)
cp852_page25 == Page(<< <<0,\hC4,1>>, <<2,\hB3,1>>, <<\hC,\hDA,1>>,
  <<\h10,\hBF,1>>, <<\h14,\hC0,1>>, <<\h18,\hD9,1>>, <<\h1C,\hC3,1>>,
  <<\h24,\hB4,1>>, <<\h2C,\hC2,1>>, <<\h34,\hC1,1>>, <<\h3C,\hC5,1>>,
  <<\h50,\hCD,1>>, <<\h51,\hBA,1>>, <<\h54,\hC9,1>>, <<\h57,\hBB,1>>,
  <<\h5A,\hC8,1>>, <<\h5D,\hBC,1>>, <<\h60,\hCC,1>>, <<\h63,\hB9,1>>,
  <<\h66,\hCB,1>>, <<\h69,\hCA,1>>, <<\h6C,\hCE,1>>, <<\h80,\hDF,1>>,
  <<\h84,\hDC,1>>, <<\h88,\hDB,1>>, <<\h91,\hB0,3>>, <<\hA0,\hFE,1>>>>)

cp852_page_uni2charset ==
  (0 :> cp852_page00) @@ (1 :> cp852_page01) @@ (2 :> cp852_page02)
  @@ (\h25 :> cp852_page25)
cp852_table == Table("cp852", cp852_charset2uni, cp852_page_uni2charset)

(* cp855: nls_cp855.c *)

cp855_charset2uni == Ascii \o <<
  \h452, \h402, \h453, \h403, \h451, \h401, \h454, \h404, \h455, \h405, \h456,
  \h406, \h457, \h407, \h458, \h408, \h459, \h409, \h45A, \h40A, \h45B, \h40B,
  \h45C, \h40C, \h45E, \h40E, \h45F, \h40F, \h44E, \h42E, \h44A, \h42A, \h430,
  \h410, \h431, \h411, \h446, \h426, \h434, \h414, \h435, \h415, \h444, \h424,
  \h433, \h413, \hAB, \hBB, \h2591, \h2592, \h2593, \h2502, \h2524, \h445,
  \h425, \h438, \h418, \h2563, \h2551, \h2557, \h255D, \h439, \h419, \h2510,
  \h2514, \h2534, \h252C, \h251C, \h2500, \h253C, \h43A, \h41A, \h255A,
  \h2554, \h2569, \h2566, \h2560, \h2550, \h256C, \hA4, \h43B, \h41B, \h43C,
  \h41C, \h43D, \h41D, \h43E, \h41E, \h43F, \h2518, \h250C, \h2588, \h2584,
  \h41F, \h44F, \h2580, \h42F, \h440, \h420, \h441, \h421, \h442, \h422,
  \h443, \h423, \h436, \h416, \h432, \h412, \h44C, \h42C, \h2116, \hAD, \h44B,
  \h42B, \h437, \h417, \h448, \h428, \h44D, \h42D, \h449, \h429, \h447, \h427,
  \hA7, \h25A0, \hA0>>

cp855_page00 == Page(<< <<1,1,127>>, <<\hA0,\hFF,1>>, <<\hA4,\hCF,1>>,
  <<\hA7,\hFD,1>>, <<\hAB,\hAE,1>>, <<\hAD,\hF0,1>>, <<\hBB,\hAF,1>>>>)
cp855_page04 == Page(<< <<1,\h85,1>>, <<2,\h81,1>>, <<3,\h83,1>>,
  <<4,\h87,1>>, <<5,\h89,1>>, <<6,\h8B,1>>, <<7,\h8D,1>>, <<8,\h8F,1>>,
  <<9,\h91,1>>, <<\hA,\h93,1>>, <<\hB,\h95,1>>, <<\hC,\h97,1>>,
  <<\hE,\h99,1>>, <<\hF,\h9B,1>>, <<\h10,\hA1,1>>, <<\h11,\hA3,1>>,
  <<\h12,\hEC,1>>, <<\h13,\hAD,1>>, <<\h14,\hA7,1>>, <<\h15,\hA9,1>>,
  <<\h16,\hEA,1>>, <<\h17,\hF4,1>>, <<\h18,\hB8,1>>, <<\h19,\hBE,1>>,
  <<\h1A,\hC7,1>>, <<\h1B,\hD1,1>>, <<\h1C,\hD3,1>>, <<\h1D,\hD5,1>>,
  <<\h1E,\hD7,1>>, <<\h1F,\hDD,1>>, <<\h20,\hE2,1>>, <<\h21,\hE4,1>>,
  <<\h22,\hE6,1>>, <<\h23,\hE8,1>>, <<\h24,\hAB,1>>, <<\h25,\hB6,1>>,
  <<\h26,\hA5,1>>, <<\h27,\hFC,1>>, <<\h28,\hF6,1>>, <<\h29,\hFA,1>>,
  <<\h2A,\h9F,1>>, <<\h2B,\hF2,1>>, <<\h2C,\hEE,1>>, <<\h2D,\hF8,1>>,
  <<\h2E,\h9D,1>>, <<\h2F,\hE0,1>>, <<\h30,\hA0,1>>, <<\h31,\hA2,1>>,
  <<\h32,\hEB,1>>, <<\h33,\hAC,1>>, <<\h34,\hA6,1>>, <<\h35,\hA8,1>>,
  <<\h36,\hE9,1>>, <<\h37,\hF3,1>>, <<\h38,\hB7,1>>, <<\h39,\hBD,1>>,
  <<\h3A,\hC6,1>>, <<\h3B,\hD0,1>>, <<\h3C,\hD2,1>>, <<\h3D,\hD4,1>>,
  <<\h3E,\hD6,1>>, <<\h3F,\hD8,1>>, <<\h40,\hE1,1>>, <<\h41,\hE3,1>>,
  <<\h42,\hE5,1>>, <<\h43,\hE7,1>>, <<\h44,\hAA,1>>, <<\h45,\hB5,1>>,
  <<\h46,\hA4,1>>, <<\h47,\hFB,1>>, <<\h48,\hF5,1>>, <<\h49,\hF9,1>>,
  <<\h4A,\h9E,1>>, <<\h4B,\hF1,1>>, <<\h4C,\hED,1>>, <<\h4D,\hF7,1>>,
  <<\h4E,\h9C,1>>, <<\h4F,\hDE,1>>, <<\h51,\h84,1>>, <<\h52,\h80,1>>,
  <<\h53,\h82,1>>, <<\h54,\h86,1>>, <<\h55,\h88,1>>, <<\h56,\h8A,1>>,
  <<\h57,\h8C,1>>, <<\h58,\h8E,1>>, <<\h59,\h90,1>>, <<\h5A,\h92,1>>,
  <<\h5B,\h94,1>>, <<\h5C,\h96,1>>, <<\h5E,\h98,1>>, <<\h5F,\h9A,1>>>>)
cp855_page21 == Page(<< <<\h16,\hEF,1>>>>)
cp855_page25 == Page(<< <<0,\hC4,1>>, <<2,\hB3,1>>, <<\hC,\hDA,1>>,
  <<\h10,\hBF,1>>, <<\h14,\hC0,1>>, <<\h18,\hD9,1>>, <<\h1C,\hC3,1>>,
  <<\h24,\hB4,1>>, <<\h2C,\hC2,1>>, <<\h34,\hC1,1>>, <<\h3C,\hC5,1>>,
  <<\h50,\hCD,1>>, <<\h51,\hBA,1>>, <<\h54,\hC9,1>>, <<\h57,\hBB,1>>,
  <<\h5A,\hC8,1>>, <<\h5D,\hBC,1>>, <<\h60,\hCC,1>>, <<\h63,\hB9,1>>,
  <<\h66,\hCB,1>>, <<\h69,\hCA,1>>, <<\h6C,\hCE,1>>, <<\h80,\hDF,1>>,
  <<\h84,\hDC,1>>, <<\h88,\hDB,1>>, <<\h91,\hB0,3>>, <<\hA0,\hFE,1>>>>)

cp855_page_uni2charset ==
  (0 :> cp855_page00) @@ (4 :> cp855_page04) @@ (\h21 :> cp855_page21)
  @@ (\h25 :> cp855_page25)
cp855_table == Table("cp855", cp855_charset2uni, cp855_page_uni2charset)

(* cp857: nls_cp857.c *)

cp857_charset2uni == Ascii \o <<
  \hC7, \hFC, \hE9, \hE2, \hE4, \hE0, \hE5, \hE7, \hEA, \hEB, \hE8, \hEF,
  \hEE, \h131, \hC4, \hC5, \hC9, \hE6, \hC6, \hF4, \hF6, \hF2, \hFB, \hF9,
  \h130, \hD6, \hDC, \hF8, \hA3, \hD8, \h15E, \h15F, \hE1, \hED, \hF3, \hFA,
  \hF1, \hD1, \h11E, \h11F, \hBF, \hAE, \hAC, \hBD, \hBC, \hA1, \hAB, \hBB,
  \h2591, \h2592, \h2593, \h2502, \h2524, \hC1, \hC2, \hC0, \hA9, \h2563,
  \h2551, \h2557, \h255D, \hA2, \hA5, \h2510, \h2514, \h2534, \h252C, \h251C,
  \h2500, \h253C, \hE3, \hC3, \h255A, \h2554, \h2569, \h2566, \h2560, \h2550,
  \h256C, \hA4, \hBA, \hAA, \hCA, \hCB, \hC8, 0, \hCD, \hCE, \hCF, \h2518,
  \h250C, \h2588, \h2584, \hA6, \hCC, \h2580, \hD3, \hDF, \hD4, \hD2, \hF5,
  \hD5, \hB5, 0, \hD7, \hDA, \hDB, \hD9, \hEC, \hFF, \hAF, \hB4, \hAD, \hB1,
  0, \hBE, \hB6, \hA7, \hF7, \hB8, \hB0, \hA8, \hB7, \hB9, \hB3, \hB2, \h25A0,
  \hA0>>

cp857_page00 == Page(<< <<1,1,127>>, <<\hA0,\hFF,1>>, <<\hA1,\hAD,1>>,
  <<\hA2,\hBD,1>>, <<\hA3,\h9C,1>>, <<\hA4,\hCF,1>>, <<\hA5,\hBE,1>>,
  <<\hA6,\hDD,1>>, <<\hA7,\hF5,1>>, <<\hA8,\hF9,1>>, <<\hA9,\hB8,1>>,
  <<\hAA,\hD1,1>>, <<\hAB,\hAE,1>>, <<\hAC,\hAA,1>>, <<\hAD,\hF0,1>>,
  <<\hAE,\hA9,1>>, <<\hAF,\hEE,1>>, <<\hB0,\hF8,1>>, <<\hB1,\hF1,1>>,
  <<\hB2,\hFD,1>>, <<\hB3,\hFC,1>>, <<\hB4,\hEF,1>>, <<\hB5,\hE6,1>>,
  <<\hB6,\hF4,1>>, <<\hB7,\hFA,1>>, <<\hB8,\hF7,1>>, <<\hB9,\hFB,1>>,
  <<\hBA,\hD0,1>>, <<\hBB,\hAF,1>>, <<\hBC,\hAC,1>>, <<\hBD,\hAB,1>>,
  <<\hBE,\hF3,1>>, <<\hBF,\hA8,1>>, <<\hC0,\hB7,1>>, <<\hC1,\hB5,2>>,
  <<\hC3,\hC7,1>>, <<\hC4,\h8E,2>>, <<\hC6,\h92,1>>, <<\hC7,\h80,1>>,
  <<\hC8,\hD4,1>>, <<\hC9,\h90,1>>, <<\hCA,\hD2,2>>, <<\hCC,\hDE,1>>,
  <<\hCD,\hD6,3>>, <<\hD1,\hA5,1>>, <<\hD2,\hE3,1>>, <<\hD3,\hE0,1>>,
  <<\hD4,\hE2,1>>, <<\hD5,\hE5,1>>, <<\hD6,\h99,1>>, <<\hD7,\hE8,1>>,
  <<\hD8,\h9D,1>>, <<\hD9,\hEB,1>>, <<\hDA,\hE9,2>>, <<\hDC,\h9A,1>>,
  <<\hDF,\hE1,1>>, <<\hE0,\h85,1>>, <<\hE1,\hA0,1>>, <<\hE2,\h83,1>>,
  <<\hE3,\hC6,1>>, <<\hE4,\h84,1>>, <<\hE5,\h86,1>>, <<\hE6,\h91,1>>,
  <<\hE7,\h87,1>>, <<\hE8,\h8A,1>>, <<\hE9,\h82,1>>, <<\hEA,\h88,2>>,
  <<\hEC,\hEC,1>>, <<\hED,\hA1,1>>, <<\hEE,\h8C,1>>, <<\hEF,\h8B,1>>,
  <<\hF1,\hA4,1>>, <<\hF2,\h95,1>>, <<\hF3,\hA2,1>>, <<\hF4,\h93,1>>,
  <<\hF5,\hE4,1>>, <<\hF6,\h94,1>>, <<\hF7,\hF6,1>>, <<\hF8,\h9B,1>>,
  <<\hF9,\h97,1>>, <<\hFA,\hA3,1>>, <<\hFB,\h96,1>>, <<\hFC,\h81,1>>,
  <<\hFF,\hED,1>>>>)
cp857_page01 == Page(<< <<\h1E,\hA6,2>>, <<\h30,\h98,1>>, <<\h31,\h8D,1>>,
  <<\h5E,\h9E,2>>>>)
cp857_page25 == Page(<< <<0,\hC4,1>>, <<2,\hB3,1>>, <<\hC,\hDA,1>>,
  <<\h10,\hBF,1>>, <<\h14,\hC0,1>>, <<\h18,\hD9,1>>, <<\h1C,\hC3,1>>,
  <<\h24,\hB4,1>>, <<\h2C,\hC2,1>>, <<\h34,\hC1,1>>, <<\h3C,\hC5,1>>,
  <<\h50,\hCD,1>>, <<\h51,\hBA,1>>, <<\h54,\hC9,1>>, <<\h57,\hBB,1>>,
  <<\h5A,\hC8,1>>, <<\h5D,\hBC,1>>, <<\h60,\hCC,1>>, <<\h63,\hB9,1>>,
  <<\h66,\hCB,1>>, <<\h69,\hCA,1>>, <<\h6C,\hCE,1>>, <<\h80,\hDF,1>>,
  <<\h84,\hDC,1>>, <<\h88,\hDB,1>>, <<\h91,\hB0,3>>, <<\hA0,\hFE,1>>>>)

cp857_page_uni2charset ==
  (0 :> cp857_page00) @@ (1 :> cp857_page01) @@ (\h25 :> cp857_page25)
cp857_table == Table("cp857", cp857_charset2uni, cp857_page_uni2charset)

(* cp860: nls_cp860.c *)

cp860_charset2uni == Ascii \o <<
  \hC7, \hFC, \hE9, \hE2, \hE3, \hE0, \hC1, \hE7, \hEA, \hCA, \hE8, \hCD,
  \hD4, \hEC, \hC3, \hC2, \hC9, \hC0, \hC8, \hF4, \hF5, \hF2, \hDA, \hF9,
  \hCC, \hD5, \hDC, \hA2, \hA3, \hD9, \h20A7, \hD3, \hE1, \hED, \hF3, \hFA,
  \hF1, \hD1, \hAA, \hBA, \hBF, \hD2, \hAC, \hBD, \hBC, \hA1, \hAB, \hBB,
  \h2591, \h2592, \h2593, \h2502, \h2524, \h2561, \h2562, \h2556, \h2555,
  \h2563, \h2551, \h2557, \h255D, \h255C, \h255B, \h2510, \h2514, \h2534,
  \h252C, \h251C, \h2500, \h253C, \h255E, \h255F, \h255A, \h2554, \h2569,
  \h2566, \h2560, \h2550, \h256C, \h2567, \h2568, \h2564, \h2565, \h2559,
  \h2558, \h2552, \h2553, \h256B, \h256A, \h2518, \h250C, \h2588, \h2584,
  \h258C, \h2590, \h2580, \h3B1, \hDF, \h393, \h3C0, \h3A3, \h3C3, \hB5,
  \h3C4, \h3A6, \h398, \h3A9, \h3B4, \h221E, \h3C6, \h3B5, \h2229, \h2261,
  \hB1, \h2265, \h2264, \h2320, \h2321, \hF7, \h2248, \hB0, \h2219, \hB7,
  \h221A, \h207F, \hB2, \h25A0, \hA0>>

cp860_page00 == Page(<< <<1,1,127>>, <<\hA0,\hFF,1>>, <<\hA1,\hAD,1>>,
  <<\hA2,\h9B,2>>, <<\hAA,\hA6,1>>, <<\hAB,\hAE,1>>, <<\hAC,\hAA,1>>,
  <<\hB0,\hF8,1>>, <<\hB1,\hF1,1>>, <<\hB2,\hFD,1>>, <<\hB5,\hE6,1>>,
  <<\hB7,\hFA,1>>, <<\hBA,\hA7,1>>, <<\hBB,\hAF,1>>, <<\hBC,\hAC,1>>,
  <<\hBD,\hAB,1>>, <<\hBF,\hA8,1>>, <<\hC0,\h91,1>>, <<\hC1,\h86,1>>,
  <<\hC2,\h8F,1>>, <<\hC3,\h8E,1>>, <<\hC7,\h80,1>>, <<\hC8,\h92,1>>,
  <<\hC9,\h90,1>>, <<\hCA,\h89,1>>, <<\hCC,\h98,1>>, <<\hCD,\h8B,1>>,
  <<\hD1,\hA5,1>>, <<\hD2,\hA9,1>>, <<\hD3,\h9F,1>>, <<\hD4,\h8C,1>>,
  <<\hD5,\h99,1>>, <<\hD9,\h9D,1>>, <<\hDA,\h96,1>>, <<\hDC,\h9A,1>>,
  <<\hDF,\hE1,1>>, <<\hE0,\h85,1>>, <<\hE1,\hA0,1>>, <<\hE2,\h83,2>>,
  <<\hE7,\h87,1>>, <<\hE8,\h8A,1>>, <<\hE9,\h82,1>>, <<\hEA,\h88,1>>,
  <<\hEC,\h8D,1>>, <<\hED,\hA1,1>>, <<\hF1,\hA4,1>>, <<\hF2,\h95,1>>,
  <<\hF3,\hA2,1>>, <<\hF4,\h93,2>>, <<\hF7,\hF6,1>>, <<\hF9,\h97,1>>,
  <<\hFA,\hA3,1>>, <<\hFC,\h81,1>>>>)
cp860_page03 == Page(<< <<\h93,\hE2,1>>, <<\h98,\hE9,1>>, <<\hA3,\hE4,1>>,
  <<\hA6,\hE8,1>>, <<\hA9,\hEA,1>>, <<\hB1,\hE0,1>>, <<\hB4,\hEB,1>>,
  <<\hB5,\hEE,1>>, <<\hC0,\hE3,1>>, <<\hC3,\hE5,1>>, <<\hC4,\hE7,1>>,
  <<\hC6,\hED,1>>>>)
cp860_page20 == Page(<< <<\h7F,\hFC,1>>, <<\hA7,\h9E,1>>>>)
cp860_page22 == Page(<< <<\h19,\hF9,1>>, <<\h1A,\hFB,1>>, <<\h1E,\hEC,1>>,
  <<\h29,\hEF,1>>, <<\h48,\hF7,1>>, <<\h61,\hF0,1>>, <<\h64,\hF3,1>>,
  <<\h65,\hF2,1>>>>)
cp860_page23 == Page(<< <<\h20,\hF4,2>>>>)
cp860_page25 == Page(<< <<0,\hC4,1>>, <<2,\hB3,1>>, <<\hC,\hDA,1>>,
  <<\h10,\hBF,1>>, <<\h14,\hC0,1>>, <<\h18,\hD9,1>>, <<\h1C,\hC3,1>>,
  <<\h24,\hB4,1>>, <<\h2C,\hC2,1>>, <<\h34,\hC1,1>>, <<\h3C,\hC5,1>>,
  <<\h50,\hCD,1>>, <<\h51,\hBA,1>>, <<\h52,\hD5,2>>, <<\h54,\hC9,1>>,
  <<\h55,\hB8,1>>, <<\h56,\hB7,1>>, <<\h57,\hBB,1>>, <<\h58,\hD4,1>>,
  <<\h59,\hD3,1>>, <<\h5A,\hC8,1>>, <<\h5B,\hBE,1>>, <<\h5C,\hBD,1>>,
  <<\h5D,\hBC,1>>, <<\h5E,\hC6,2>>, <<\h60,\hCC,1>>, <<\h61,\hB5,2>>,
  <<\h63,\hB9,1>>, <<\h64,\hD1,2>>, <<\h66,\hCB,1>>, <<\h67,\hCF,2>>,
  <<\h69,\hCA,1>>, <<\h6A,\hD8,1>>, <<\h6B,\hD7,1>>, <<\h6C,\hCE,1>>,
  <<\h80,\hDF,1>>, <<\h84,\hDC,1>>, <<\h88,\hDB,1>>, <<\h8C,\hDD,1>>,
  <<\h90,\hDE,1>>, <<\h91,\hB0,3>>, <<\hA0,\hFE,1>>>>)

cp860_page_uni2charset ==
  (0 :> cp860_page00) @@ (3 :> cp860_page03) @@ (\h20 :> cp860_page20)
  @@ (\h22 :> cp860_page22) @@ (\h23 :> cp860_page23)
  @@ (\h25 :> cp860_page25)
cp860_table == Table("cp860", cp860_charset2uni, cp860_page_uni2charset)

(* cp861: nls_cp861.c *)

cp861_charset2uni == Ascii \o <<
  \hC7, \hFC, \hE9, \hE2, \hE4, \hE0, \hE5, \hE7, \hEA, \hEB, \hE8, \hD0,
  \hF0, \hDE, \hC4, \hC5, \hC9, \hE6, \hC6, \hF4, \hF6, \hFE, \hFB, \hDD,
  \hFD, \hD6, \hDC, \hF8, \hA3, \hD8, \h20A7, \h192, \hE1, \hED, \hF3, \hFA,
  \hC1, \hCD, \hD3, \hDA, \hBF, \h2310, \hAC, \hBD, \hBC, \hA1, \hAB, \hBB,
  \h2591, \h2592, \h2593, \h2502, \h2524, \h2561, \h2562, \h2556, \h2555,
  \h2563, \h2551, \h2557, \h255D, \h255C, \h255B, \h2510, \h2514, \h2534,
  \h252C, \h251C, \h2500, \h253C, \h255E, \h255F, \h255A, \h2554, \h2569,
  \h2566, \h2560, \h2550, \h256C, \h2567, \h2568, \h2564, \h2565, \h2559,
  \h2558, \h2552, \h2553, \h256B, \h256A, \h2518, \h250C, \h2588, \h2584,
  \h258C, \h2590, \h2580, \h3B1, \hDF, \h393, \h3C0, \h3A3, \h3C3, \hB5,
  \h3C4, \h3A6, \h398, \h3A9, \h3B4, \h221E, \h3C6, \h3B5, \h2229, \h2261,
  \hB1, \h2265, \h2264, \h2320, \h2321, \hF7, \h2248, \hB0, \h2219, \hB7,
  \h221A, \h207F, \hB2, \h25A0, \hA0>>

cp861_page00 == Page(<< <<1,1,127>>, <<\hA0,\hFF,1>>, <<\hA1,\hAD,1>>,
  <<\hA3,\h9C,1>>, <<\hAB,\hAE,1>>, <<\hAC,\hAA,1>>, <<\hB0,\hF8,1>>,
  <<\hB1,\hF1,1>>, <<\hB2,\hFD,1>>, <<\hB5,\hE6,1>>, <<\hB7,\hFA,1>>,
  <<\hBB,\hAF,1>>, <<\hBC,\hAC,1>>, <<\hBD,\hAB,1>>, <<\hBF,\hA8,1>>,
  <<\hC1,\hA4,1>>, <<\hC4,\h8E,2>>, <<\hC6,\h92,1>>, <<\hC7,\h80,1>>,
  <<\hC9,\h90,1>>, <<\hCD,\hA5,1>>, <<\hD0,\h8B,1>>, <<\hD3,\hA6,1>>,
  <<\hD6,\h99,1>>, <<\hD8,\h9D,1>>, <<\hDA,\hA7,1>>, <<\hDC,\h9A,1>>,
  <<\hDD,\h97,1>>, <<\hDE,\h8D,1>>, <<\hDF,\hE1,1>>, <<\hE0,\h85,1>>,
  <<\hE1,\hA0,1>>, <<\hE2,\h83,1>>, <<\hE4,\h84,1>>, <<\hE5,\h86,1>>,
  <<\hE6,\h91,1>>, <<\hE7,\h87,1>>, <<\hE8,\h8A,1>>, <<\hE9,\h82,1>>,
  <<\hEA,\h88,2>>, <<\hED,\hA1,1>>, <<\hF0,\h8C,1>>, <<\hF3,\hA2,1>>,
  <<\hF4,\h93,1>>, <<\hF6,\h94,1>>, <<\hF7,\hF6,1>>, <<\hF8,\h9B,1>>,
  <<\hFA,\hA3,1>>, <<\hFB,\h96,1>>, <<\hFC,\h81,1>>, <<\hFD,\h98,1>>,
  <<\hFE,\h95,1>>>>)
cp861_page01 == Page(<< <<\h92,\h9F,1>>>>)
cp861_page03 == Page(<< <<\h93,\hE2,1>>, <<\h98,\hE9,1>>, <<\hA3,\hE4,1>>,
  <<\hA6,\hE8,1>>, <<\hA9,\hEA,1>>, <<\hB1,\hE0,1>>, <<\hB4,\hEB,1>>,
  <<\hB5,\hEE,1>>, <<\hC0,\hE3,1>>, <<\hC3,\hE5,1>>, <<\hC4,\hE7,1>>,
  <<\hC6,\hED,1>>>>)
cp861_page20 == Page(<< <<\h7F,\hFC,1>>, <<\hA7,\h9E,1>>>>)
cp861_page22 == Page(<< <<\h19,\hF9,1>>, <<\h1A,\hFB,1>>, <<\h1E,\hEC,1>>,
  <<\h29,\hEF,1>>, <<\h48,\hF7,1>>, <<\h61,\hF0,1>>, <<\h64,\hF3,1>>,
  <<\h65,\hF2,1>>>>)
cp861_page23 == Page(<< <<\h10,\hA9,1>>, <<\h20,\hF4,2>>>>)
cp861_page25 == Page(<< <<0,\hC4,1>>, <<2,\hB3,1>>, <<\hC,\hDA,1>>,
  <<\h10,\hBF,1>>, <<\h14,\hC0,1>>, <<\h18,\hD9,1>>, <<\h1C,\hC3,1>>,
  <<\h24,\hB4,1>>, <<\h2C,\hC2,1>>, <<\h34,\hC1,1>>, <<\h3C,\hC5,1>>,
  <<\h50,\hCD,1>>, <<\h51,\hBA,1>>, <<\h52,\hD5,2>>, <<\h54,\hC9,1>>,
  <<\h55,\hB8,1>>, <<\h56,\hB7,1>>, <<\h57,\hBB,1>>, <<\h58,\hD4,1>>,
  <<\h59,\hD3,1>>, <<\h5A,\hC8,1>>, <<\h5B,\hBE,1>>, <<\h5C,\hBD,1>>,
  <<\h5D,\hBC,1>>, <<\h5E,\hC6,2>>, <<\h60,\hCC,1>>, <<\h61,\hB5,2>>,
  <<\h63,\hB9,1>>, <<\h64,\hD1,2>>, <<\h66,\hCB,1>>, <<\h67,\hCF,2>>,
  <<\h69,\hCA,1>>, <<\h6A,\hD8,1>>, <<\h6B,\hD7,1>>, <<\h6C,\hCE,1>>,
  <<\h80,\hDF,1>>, <<\h84,\hDC,1>>, <<\h88,\hDB,1>>, <<\h8C,\hDD,1>>,
  <<\h90,\hDE,1>>, <<\h91,\hB0,3>>, <<\hA0,\hFE,1>>>>)

cp861_page_uni2charset ==
  (0 :> cp861_page00) @@ (1 :> cp861_page01) @@ (3 :> cp861_page03)
  @@ (\h20 :> cp861_page20) @@ (\h22 :> cp861_page22)
  @@ (\h23 :> cp861_page23) @@ (\h25 :> cp861_page25)
cp861_table == Table("cp861", cp861_charset2uni, cp861_page_uni2charset)

(* cp862: nls_cp862.c *)

cp862_charset2uni == Ascii \o <<
  \h5D0, \h5D1, \h5D2, \h5D3, \h5D4, \h5D5, \h5D6, \h5D7, \h5D8, \h5D9, \h5DA,
  \h5DB, \h5DC, \h5DD, \h5DE, \h5DF, \h5E0, \h5E1, \h5E2, \h5E3, \h5E4, \h5E5,
  \h5E6, \h5E7, \h5E8, \h5E9, \h5EA, \hA2, \hA3, \hA5, \h20A7, \h192, \hE1,
  \hED, \hF3, \hFA, \hF1, \hD1, \hAA, \hBA, \hBF, \h2310, \hAC, \hBD, \hBC,
  \hA1, \hAB, \hBB, \h2591, \h2592, \h2593, \h2502, \h2524, \h2561, \h2562,
  \h2556, \h2555, \h2563, \h2551, \h2557, \h255D, \h255C, \h255B, \h2510,
  \h2514, \h2534, \h252C, \h251C, \h2500, \h253C, \h255E, \h255F, \h255A,
  \h2554, \h2569, \h2566, \h2560, \h2550, \h256C, \h2567, \h2568, \h2564,
  \h2565, \h2559, \h2558, \h2552, \h2553, \h256B, \h256A, \h2518, \h250C,
  \h2588, \h2584, \h258C, \h2590, \h2580, \h3B1, \hDF, \h393, \h3C0, \h3A3,
  \h3C3, \hB5, \h3C4, \h3A6, \h398, \h3A9, \h3B4, \h221E, \h3C6, \h3B5,
  \h2229, \h2261, \hB1, \h2265, \h2264, \h2320, \h2321, \hF7, \h2248, \hB0,
  \h2219, \hB7, \h221A, \h207F, \hB2, \h25A0, \hA0>>

cp862_page00 == Page(<< <<1,1,127>>, <<\hA0,\hFF,1>>, <<\hA1,\hAD,1>>,
  <<\hA2,\h9B,2>>, <<\hA5,\h9D,1>>, <<\hAA,\hA6,1>>, <<\hAB,\hAE,1>>,
  <<\hAC,\hAA,1>>, <<\hB0,\hF8,1>>, <<\hB1,\hF1,1>>, <<\hB2,\hFD,1>>,
  <<\hB5,\hE6,1>>, <<\hB7,\hFA,1>>, <<\hBA,\hA7,1>>, <<\hBB,\hAF,1>>,
  <<\hBC,\hAC,1>>, <<\hBD,\hAB,1>>, <<\hBF,\hA8,1>>, <<\hD1,\hA5,1>>,
  <<\hDF,\hE1,1>>, <<\hE1,\hA0,1>>, <<\hED,\hA1,1>>, <<\hF1,\hA4,1>>,
  <<\hF3,\hA2,1>>, <<\hF7,\hF6,1>>, <<\hFA,\hA3,1>>>>)
cp862_page01 == Page(<< <<\h92,\h9F,1>>>>)
cp862_page03 == Page(<< <<\h93,\hE2,1>>, <<\h98,\hE9,1>>, <<\hA3,\hE4,1>>,
  <<\hA6,\hE8,1>>, <<\hA9,\hEA,1>>, <<\hB1,\hE0,1>>, <<\hB4,\hEB,1>>,
  <<\hB5,\hEE,1>>, <<\hC0,\hE3,1>>, <<\hC3,\hE5,1>>, <<\hC4,\hE7,1>>,
  <<\hC6,\hED,1>>>>)
cp862_page05 == Page(<< <<\hD0,\h80,27>>>>)
cp862_page20 == Page(<< <<\h7F,\hFC,1>>, <<\hA7,\h9E,1>>>>)
cp862_page22 == Page(<< <<\h19,\hF9,1>>, <<\h1A,\hFB,1>>, <<\h1E,\hEC,1>>,
  <<\h29,\hEF,1>>, <<\h48,\hF7,1>>, <<\h61,\hF0,1>>, <<\h64,\hF3,1>>,
  <<\h65,\hF2,1>>>>)
cp862_page23 == Page(<< <<\h10,\hA9,1>>, <<\h20,\hF4,2>>>>)
cp862_page25 == Page(<< <<0,\hC4,1>>, <<2,\hB3,1>>, <<\hC,\hDA,1>>,
  <<\h10,\hBF,1>>, <<\h14,\hC0,1>>, <<\h18,\hD9,1>>, <<\h1C,\hC3,1>>,
  <<\h24,\hB4,1>>, <<\h2C,\hC2,1>>, <<\h34,\hC1,1>>, <<\h3C,\hC5,1>>,
  <<\h50,\hCD,1>>, <<\h51,\hBA,1>>, <<\h52,\hD5,2>>, <<\h54,\hC9,1>>,
  <<\h55,\hB8,1>>, <<\h56,\hB7,1>>, <<\h57,\hBB,1>>, <<\h58,\hD4,1>>,
  <<\h59,\hD3,1>>, <<\h5A,\hC8,1>>, <<\h5B,\hBE,1>>, <<\h5C,\hBD,1>>,
  <<\h5D,\hBC,1>>, <<\h5E,\hC6,2>>, <<\h60,\hCC,1>>, <<\h61,\hB5,2>>,
  <<\h63,\hB9,1>>, <<\h64,\hD1,2>>, <<\h66,\hCB,1>>, <<\h67,\hCF,2>>,
  <<\h69,\hCA,1>>, <<\h6A,\hD8,1>>, <<\h6B,\hD7,1>>, <<\h6C,\hCE,1>>,
  <<\h80,\hDF,1>>, <<\h84,\hDC,1>>, <<\h88,\hDB,1>>, <<\h8C,\hDD,1>>,
  <<\h90,\hDE,1>>, <<\h91,\hB0,3>>, <<\hA0,\hFE,1>>>>)

cp862_page_uni2charset ==
  (0 :> cp862_page00) @@ (1 :> cp862_page01) @@ (3 :> cp862_page03)
  @@ (5 :> cp862_page05) @@ (\h20 :> cp862_page20) @@ (\h22 :> cp862_page22)
  @@ (\h23 :> cp862_page23) @@ (\h25 :> cp862_page25)
cp862_table == Table("cp862", cp862_charset2uni, cp862_page_uni2charset)

(* cp863: nls_cp863.c *)

cp863_charset2uni == Ascii \o <<
  \hC7, \hFC, \hE9, \hE2, \hC2, \hE0, \hB6, \hE7, \hEA, \hEB, \hE8, \hEF,
  \hEE, \h2017, \hC0, \hA7, \hC9, \hC8, \hCA, \hF4, \hCB, \hCF, \hFB, \hF9,
  \hA4, \hD4, \hDC, \hA2, \hA3, \hD9, \hDB, \h192, \hA6, \hB4, \hF3, \hFA,
  \hA8, \hB8, \hB3, \hAF, \hCE, \h2310, \hAC, \hBD, \hBC, \hBE, \hAB, \hBB,
  \h2591, \h2592, \h2593, \h2502, \h2524, \h2561, \h2562, \h2556, \h2555,
  \h2563, \h2551, \h2557, \h255D, \h255C, \h255B, \h2510, \h2514, \h2534,
  \h252C, \h251C, \h2500, \h253C, \h255E, \h255F, \h255A, \h2554, \h2569,
  \h2566, \h2560, \h2550, \h256C, \h2567, \h2568, \h2564, \h2565, \h2559,
  \h2558, \h2552, \h2553, \h256B, \h256A, \h2518, \h250C, \h2588, \h2584,
  \h258C, \h2590, \h2580, \h3B1, \hDF, \h393, \h3C0, \h3A3, \h3C3, \hB5,
  \h3C4, \h3A6, \h398, \h3A9, \h3B4, \h221E, \h3C6, \h3B5, \h2229, \h2261,
  \hB1, \h2265, \h2264, \h2320, \h2321, \hF7, \h2248, \hB0, \h2219, \hB7,
  \h221A, \h207F, \hB2, \h25A0, \hA0>>

cp863_page00 == Page(<< <<1,1,127>>, <<\hA0,\hFF,1>>, <<\hA2,\h9B,2>>,
  <<\hA4,\h98,1>>, <<\hA6,\hA0,1>>, <<\hA7,\h8F,1>>, <<\hA8,\hA4,1>>,
  <<\hAB,\hAE,1>>, <<\hAC,\hAA,1>>, <<\hAF,\hA7,1>>, <<\hB0,\hF8,1>>,
  <<\hB1,\hF1,1>>, <<\hB2,\hFD,1>>, <<\hB3,\hA6,1>>, <<\hB4,\hA1,1>>,
  <<\hB5,\hE6,1>>, <<\hB6,\h86,1>>, <<\hB7,\hFA,1>>, <<\hB8,\hA5,1>>,
  <<\hBB,\hAF,1>>, <<\hBC,\hAC,1>>, <<\hBD,\hAB,1>>, <<\hBE,\hAD,1>>,
  <<\hC0,\h8E,1>>, <<\hC2,\h84,1>>, <<\hC7,\h80,1>>, <<\hC8,\h91,1>>,
  <<\hC9,\h90,1>>, <<\hCA,\h92,1>>, <<\hCB,\h94,1>>, <<\hCE,\hA8,1>>,
  <<\hCF,\h95,1>>, <<\hD4,\h99,1>>, <<\hD9,\h9D,1>>, <<\hDB,\h9E,1>>,
  <<\hDC,\h9A,1>>, <<\hDF,\hE1,1>>, <<\hE0,\h85,1>>, <<\hE2,\h83,1>>,
  <<\hE7,\h87,1>>, <<\hE8,\h8A,1>>, <<\hE9,\h82,1>>, <<\hEA,\h88,2>>,
  <<\hEE,\h8C,1>>, <<\hEF,\h8B,1>>, <<\hF3,\hA2,1>>, <<\hF4,\h93,1>>,
  <<\hF7,\hF6,1>>, <<\hF9,\h97,1>>, <<\hFA,\hA3,1>>, <<\hFB,\h96,1>>,
  <<\hFC,\h81,1>>>>)
cp863_page01 == Page(<< <<\h92,\h9F,1>>>>)
cp863_page03 == Page(<< <<\h93,\hE2,1>>, <<\h98,\hE9,1>>, <<\hA3,\hE4,1>>,
  <<\hA6,\hE8,1>>, <<\hA9,\hEA,1>>, <<\hB1,\hE0,1>>, <<\hB4,\hEB,1>>,
  <<\hB5,\hEE,1>>, <<\hC0,\hE3,1>>, <<\hC3,\hE5,1>>, <<\hC4,\hE7,1>>,
  <<\hC6,\hED,1>>>>)
cp863_page20 == Page(<< <<\h17,\h8D,1>>, <<\h7F,\hFC,1>>>>)
cp863_page22 == Page(<< <<\h19,\hF9,1>>, <<\h1A,\hFB,1>>, <<\h1E,\hEC,1>>,
  <<\h29,\hEF,1>>, <<\h48,\hF7,1>>, <<\h61,\hF0,1>>, <<\h64,\hF3,1>>,
  <<\h65,\hF2,1>>>>)
cp863_page23 == Page(<< <<\h10,\hA9,1>>, <<\h20,\hF4,2>>>>)
cp863_page25 == Page(<< <<0,\hC4,1>>, <<2,\hB3,1>>, <<\hC,\hDA,1>>,
  <<\h10,\hBF,1>>, <<\h14,\hC0,1>>, <<\h18,\hD9,1>>, <<\h1C,\hC3,1>>,
  <<\h24,\hB4,1>>, <<\h2C,\hC2,1>>, <<\h34,\hC1,1>>, <<\h3C,\hC5,1>>,
  <<\h50,\hCD,1>>, <<\h51,\hBA,1>>, <<\h52,\hD5,2>>, <<\h54,\hC9,1>>,
  <<\h55,\hB8,1>>, <<\h56,\hB7,1>>, <<\h57,\hBB,1>>, <<\h58,\hD4,1>>,
  <<\h59,\hD3,1>>, <<\h5A,\hC8,1>>, <<\h5B,\hBE,1>>, <<\h5C,\hBD,1>>,
  <<\h5D,\hBC,1>>, <<\h5E,\hC6,2>>, <<\h60,\hCC,1>>, <<\h61,\hB5,2>>,
  <<\h63,\hB9,1>>, <<\h64,\hD1,2>>, <<\h66,\hCB,1>>, <<\h67,\hCF,2>>,
  <<\h69,\hCA,1>>, <<\h6A,\hD8,1>>, <<\h6B,\hD7,1>>, <<\h6C,\hCE,1>>,
  <<\h80,\hDF,1>>, <<\h84,\hDC,1>>, <<\h88,\hDB,1>>, <<\h8C,\hDD,1>>,
  <<\h90,\hDE,1>>, <<\h91,\hB0,3>>, <<\hA0,\hFE,1>>>>)

cp863_page_uni2charset ==
  (0 :> cp863_page00) @@ (1 :> cp863_page01) @@ (3 :> cp863_page03)
  @@ (\h20 :> cp863_page20) @@ (\h22 :> cp863_page22)
  @@ (\h23 :> cp863_page23) @@ (\h25 :> cp863_page25)
cp863_table == Table("cp863", cp863_charset2uni, cp863_page_uni2charset)

(* cp864: nls_cp864.c *)

cp864_charset2uni == [Ascii EXCEPT ![38] = \h66A] \o <<
  \hB0, \hB7, \h2219, \h221A, \h2592, \h2500, \h2502, \h253C, \h2524, \h252C,
  \h251C, \h2534, \h2510, \h250C, \h2514, \h2518, \h3B2, \h221E, \h3C6, \hB1,
  \hBD, \hBC, \h2248, \hAB, \hBB, \hFEF7, \hFEF8, 0, 0, \hFEFB, \hFEFC, 0,
  \hA0, \hAD, \hFE82, \hA3, \hA4, \hFE84, 0, 0, \hFE8E, \hFE8F, \hFE95,
  \hFE99, \h60C, \hFE9D, \hFEA1, \hFEA5, \h660, \h661, \h662, \h663, \h664,
  \h665, \h666, \h667, \h668, \h669, \hFED1, \h61B, \hFEB1, \hFEB5, \hFEB9,
  \h61F, \hA2, \hFE80, \hFE81, \hFE83, \hFE85, \hFECA, \hFE8B, \hFE8D, \hFE91,
  \hFE93, \hFE97, \hFE9B, \hFE9F, \hFEA3, \hFEA7, \hFEA9, \hFEAB, \hFEAD,
  \hFEAF, \hFEB3, \hFEB7, \hFEBB, \hFEBF, \hFEC1, \hFEC5, \hFECB, \hFECF,
  \hA6, \hAC, \hF7, \hD7, \hFEC9, \h640, \hFED3, \hFED7, \hFEDB, \hFEDF,
  \hFEE3, \hFEE7, \hFEEB, \hFEED, \hFEEF, \hFEF3, \hFEBD, \hFECC, \hFECE,
  \hFECD, \hFEE1, \hFE7D, \h651, \hFEE5, \hFEE9, \hFEEC, \hFEF0, \hFEF2,
  \hFED0, \hFED5, \hFEF5, \hFEF6, \hFEDD, \hFED9, \hFEF1, \h25A0, 0>>

cp864_page00 == Page(<< <<1,1,36>>, <<\h26,\h26,90>>, <<\hA0,\hA0,1>>,
  <<\hA2,\hC0,1>>, <<\hA3,\hA3,2>>, <<\hA6,\hDB,1>>, <<\hAB,\h97,1>>,
  <<\hAC,\hDC,1>>, <<\hAD,\hA1,1>>, <<\hB0,\h80,1>>, <<\hB1,\h93,1>>,
  <<\hB7,\h81,1>>, <<\hBB,\h98,1>>, <<\hBC,\h95,1>>, <<\hBD,\h94,1>>,
  <<\hD7,\hDE,1>>, <<\hF7,\hDD,1>>>>)
cp864_page03 == Page(<< <<\hB2,\h90,1>>, <<\hC6,\h92,1>>>>)
cp864_page06 == Page(<< <<\hC,\hAC,1>>, <<\h1B,\hBB,1>>, <<\h1F,\hBF,1>>,
  <<\h40,\hE0,1>>, <<\h51,\hF1,1>>, <<\h60,\hB0,10>>, <<\h6A,\h25,1>>>>)
cp864_page22 == Page(<< <<\h19,\h82,2>>, <<\h1E,\h91,1>>, <<\h48,\h96,1>>>>)
cp864_page25 == Page(<< <<0,\h85,1>>, <<2,\h86,1>>, <<\hC,\h8D,1>>,
  <<\h10,\h8C,1>>, <<\h14,\h8E,1>>, <<\h18,\h8F,1>>, <<\h1C,\h8A,1>>,
  <<\h24,\h88,1>>, <<\h2C,\h89,1>>, <<\h34,\h8B,1>>, <<\h3C,\h87,1>>,
  <<\h92,\h84,1>>, <<\hA0,\hFE,1>>>>)
cp864_pagefe == Page(<< <<\h7D,\hF0,1>>, <<\h80,\hC1,2>>, <<\h82,\hA2,1>>,
  <<\h83,\hC3,1>>, <<\h84,\hA5,1>>, <<\h85,\hC4,1>>, <<\h8B,\hC6,1>>,
  <<\h8D,\hC7,1>>, <<\h8E,\hA8,2>>, <<\h91,\hC8,1>>, <<\h93,\hC9,1>>,
  <<\h95,\hAA,1>>, <<\h97,\hCA,1>>, <<\h99,\hAB,1>>, <<\h9B,\hCB,1>>,
  <<\h9D,\hAD,1>>, <<\h9F,\hCC,1>>, <<\hA1,\hAE,1>>, <<\hA3,\hCD,1>>,
  <<\hA5,\hAF,1>>, <<\hA7,\hCE,1>>, <<\hA9,\hCF,1>>, <<\hAB,\hD0,1>>,
  <<\hAD,\hD1,1>>, <<\hAF,\hD2,1>>, <<\hB1,\hBC,1>>, <<\hB3,\hD3,1>>,
  <<\hB5,\hBD,1>>, <<\hB7,\hD4,1>>, <<\hB9,\hBE,1>>, <<\hBB,\hD5,1>>,
  <<\hBD,\hEB,1>>, <<\hBF,\hD6,1>>, <<\hC1,\hD7,1>>, <<\hC5,\hD8,1>>,
  <<\hC9,\hDF,1>>, <<\hCA,\hC5,1>>, <<\hCB,\hD9,1>>, <<\hCC,\hEC,1>>,
  <<\hCD,\hEE,1>>, <<\hCE,\hED,1>>, <<\hCF,\hDA,1>>, <<\hD0,\hF7,1>>,
  <<\hD1,\hBA,1>>, <<\hD3,\hE1,1>>, <<\hD5,\hF8,1>>, <<\hD7,\hE2,1>>,
  <<\hD9,\hFC,1>>, <<\hDB,\hE3,1>>, <<\hDD,\hFB,1>>, <<\hDF,\hE4,1>>,
  <<\hE1,\hEF,1>>, <<\hE3,\hE5,1>>, <<\hE5,\hF2,1>>, <<\hE7,\hE6,1>>,
  <<\hE9,\hF3,1>>, <<\hEB,\hE7,1>>, <<\hEC,\hF4,1>>, <<\hED,\hE8,1>>,
  <<\hEF,\hE9,1>>, <<\hF0,\hF5,1>>, <<\hF1,\hFD,1>>, <<\hF2,\hF6,1>>,
  <<\hF3,\hEA,1>>, <<\hF5,\hF9,2>>, <<\hF7,\h99,2>>, <<\hFB,\h9D,2>>>>)

cp864_page_uni2charset ==
  (0 :> cp864_page00) @@ (3 :> cp864_page03) @@ (6 :> cp864_page06)
  @@ (\h22 :> cp864_page22) @@ (\h25 :> cp864_page25)
  @@ (\hFE :> cp864_pagefe)
cp864_table == Table("cp864", cp864_charset2uni, cp864_page_uni2charset)

(* cp865: nls_cp865.c *)

cp865_charset2uni == Ascii \o <<
  \hC7, \hFC, \hE9, \hE2, \hE4, \hE0, \hE5, \hE7, \hEA, \hEB, \hE8, \hEF,
  \hEE, \hEC, \hC4, \hC5, \hC9, \hE6, \hC6, \hF4, \hF6, \hF2, \hFB, \hF9,
  \hFF, \hD6, \hDC, \hF8, \hA3, \hD8, \h20A7, \h192, \hE1, \hED, \hF3, \hFA,
  \hF1, \hD1, \hAA, \hBA, \hBF, \h2310, \hAC, \hBD, \hBC, \hA1, \hAB, \hA4,
  \h2591, \h2592, \h2593, \h2502, \h2524, \h2561, \h2562, \h2556, \h2555,
  \h2563, \h2551, \h2557, \h255D, \h255C, \h255B, \h2510, \h2514, \h2534,
  \h252C, \h251C, \h2500, \h253C, \h255E, \h255F, \h255A, \h2554, \h2569,
  \h2566, \h2560, \h2550, \h256C, \h2567, \h2568, \h2564, \h2565, \h2559,
  \h2558, \h2552, \h2553, \h256B, \h256A, \h2518, \h250C, \h2588, \h2584,
  \h258C, \h2590, \h2580, \h3B1, \hDF, \h393, \h3C0, \h3A3, \h3C3, \hB5,
  \h3C4, \h3A6, \h398, \h3A9, \h3B4, \h221E, \h3C6, \h3B5, \h2229, \h2261,
  \hB1, \h2265, \h2264, \h2320, \h2321, \hF7, \h2248, \hB0, \h2219, \hB7,
  \h221A, \h207F, \hB2, \h25A0, \hA0>>

cp865_page00 == Page(<< <<1,1,127>>, <<\hA0,\hFF,1>>, <<\hA1,\hAD,1>>,
  <<\hA3,\h9C,1>>, <<\hA4,\hAF,1>>, <<\hAA,\hA6,1>>, <<\hAB,\hAE,1>>,
  <<\hAC,\hAA,1>>, <<\hB0,\hF8,1>>, <<\hB1,\hF1,1>>, <<\hB2,\hFD,1>>,
  <<\hB5,\hE6,1>>, <<\hB7,\hFA,1>>, <<\hBA,\hA7,1>>, <<\hBC,\hAC,1>>,
  <<\hBD,\hAB,1>>, <<\hBF,\hA8,1>>, <<\hC4,\h8E,2>>, <<\hC6,\h92,1>>,
  <<\hC7,\h80,1>>, <<\hC9,\h90,1>>, <<\hD1,\hA5,1>>, <<\hD6,\h99,1>>,
  <<\hD8,\h9D,1>>, <<\hDC,\h9A,1>>, <<\hDF,\hE1,1>>, <<\hE0,\h85,1>>,
  <<\hE1,\hA0,1>>, <<\hE2,\h83,1>>, <<\hE4,\h84,1>>, <<\hE5,\h86,1>>,
  <<\hE6,\h91,1>>, <<\hE7,\h87,1>>, <<\hE8,\h8A,1>>, <<\hE9,\h82,1>>,
  <<\hEA,\h88,2>>, <<\hEC,\h8D,1>>, <<\hED,\hA1,1>>, <<\hEE,\h8C,1>>,
  <<\hEF,\h8B,1>>, <<\hF1,\hA4,1>>, <<\hF2,\h95,1>>, <<\hF3,\hA2,1>>,
  <<\hF4,\h93,1>>, <<\hF6,\h94,1>>, <<\hF7,\hF6,1>>, <<\hF8,\h9B,1>>,
  <<\hF9,\h97,1>>, <<\hFA,\hA3,1>>, <<\hFB,\h96,1>>, <<\hFC,\h81,1>>,
  <<\hFF,\h98,1>>>>)
cp865_page01 == Page(<< <<\h92,\h9F,1>>>>)
cp865_page03 == Page(<< <<\h93,\hE2,1>>, <<\h98,\hE9,1>>, <<\hA3,\hE4,1>>,
  <<\hA6,\hE8,1>>, <<\hA9,\hEA,1>>, <<\hB1,\hE0,1>>, <<\hB4,\hEB,1>>,
  <<\hB5,\hEE,1>>, <<\hC0,\hE3,1>>, <<\hC3,\hE5,1>>, <<\hC4,\hE7,1>>,
  <<\hC6,\hED,1>>>>)
cp865_page20 == Page(<< <<\h7F,\hFC,1>>, <<\hA7,\h9E,1>>>>)
cp865_page22 == Page(<< <<\h19,\hF9,1>>, <<\h1A,\hFB,1>>, <<\h1E,\hEC,1>>,
  <<\h29,\hEF,1>>, <<\h48,\hF7,1>>, <<\h61,\hF0,1>>, <<\h64,\hF3,1>>,
  <<\h65,\hF2,1>>>>)
cp865_page23 == Page(<< <<\h10,\hA9,1>>, <<\h20,\hF4,2>>>>)
cp865_page25 == Page(<< <<0,\hC4,1>>, <<2,\hB3,1>>, <<\hC,\hDA,1>>,
  <<\h10,\hBF,1>>, <<\h14,\hC0,1>>, <<\h18,\hD9,1>>, <<\h1C,\hC3,1>>,
  <<\h24,\hB4,1>>, <<\h2C,\hC2,1>>, <<\h34,\hC1,1>>, <<\h3C,\hC5,1>>,
  <<\h50,\hCD,1>>, <<\h51,\hBA,1>>, <<\h52,\hD5,2>>, <<\h54,\hC9,1>>,
  <<\h55,\hB8,1>>, <<\h56,\hB7,1>>, <<\h57,\hBB,1>>, <<\h58,\hD4,1>>,
  <<\h59,\hD3,1>>, <<\h5A,\hC8,1>>, <<\h5B,\hBE,1>>, <<\h5C,\hBD,1>>,
  <<\h5D,\hBC,1>>, <<\h5E,\hC6,2>>, <<\h60,\hCC,1>>, <<\h61,\hB5,2>>,
  <<\h63,\hB9,1>>, <<\h64,\hD1,2>>, <<\h66,\hCB,1>>, <<\h67,\hCF,2>>,
  <<\h69,\hCA,1>>, <<\h6A,\hD8,1>>, <<\h6B,\hD7,1>>, <<\h6C,\hCE,1>>,
  <<\h80,\hDF,1>>, <<\h84,\hDC,1>>, <<\h88,\hDB,1>>, <<\h8C,\hDD,1>>,
  <<\h90,\hDE,1>>, <<\h91,\hB0,3>>, <<\hA0,\hFE,1>>>>)

cp865_page_uni2charset ==
  (0 :> cp865_page00) @@ (1 :> cp865_page01) @@ (3 :> cp865_page03)
  @@ (\h20 :> cp865_page20) @@ (\h22 :> cp865_page22)
  @@ (\h23 :> cp865_page23) @@ (\h25 :> cp865_page25)
cp865_table == Table("cp865", cp865_charset2uni, cp865_page_uni2charset)

(* cp866: nls_cp866.c *)

cp866_charset2uni == Ascii \o <<
  \h410, \h411, \h412, \h413, \h414, \h415, \h416, \h417, \h418, \h419, \h41A,
  \h41B, \h41C, \h41D, \h41E, \h41F, \h420, \h421, \h422, \h423, \h424, \h425,
  \h426, \h427, \h428, \h429, \h42A, \h42B, \h42C, \h42D, \h42E, \h42F, \h430,
  \h431, \h432, \h433, \h434, \h435, \h436, \h437, \h438, \h439, \h43A, \h43B,
  \h43C, \h43D, \h43E, \h43F, \h2591, \h2592, \h2593, \h2502, \h2524, \h2561,
  \h2562, \h2556, \h2555, \h2563, \h2551, \h2557, \h255D, \h255C, \h255B,
  \h2510, \h2514, \h2534, \h252C, \h251C, \h2500, \h253C, \h255E, \h255F,
  \h255A, \h2554, \h2569, \h2566, \h2560, \h2550, \h256C, \h2567, \h2568,
  \h2564, \h2565, \h2559, \h2558, \h2552, \h2553, \h256B, \h256A, \h2518,
  \h250C, \h2588, \h2584, \h258C, \h2590, \h2580, \h440, \h441, \h442, \h443,
  \h444, \h445, \h446, \h447, \h448, \h449, \h44A, \h44B, \h44C, \h44D, \h44E,
  \h44F, \h401, \h451, \h404, \h454, \h407, \h457, \h40E, \h45E, \hB0, \h2219,
  \hB7, \h221A, \h2116, \hA4, \h25A0, \hA0>>

cp866_page00 == Page(<< <<1,1,127>>, <<\hA0,\hFF,1>>, <<\hA4,\hFD,1>>,
  <<\hB0,\hF8,1>>, <<\hB7,\hFA,1>>>>)
cp866_page04 == Page(<< <<1,\hF0,1>>, <<4,\hF2,1>>, <<7,\hF4,1>>,
  <<\hE,\hF6,1>>, <<\h10,\h80,48>>, <<\h40,\hE0,16>>, <<\h51,\hF1,1>>,
  <<\h54,\hF3,1>>, <<\h57,\hF5,1>>, <<\h5E,\hF7,1>>>>)
cp866_page21 == Page(<< <<\h16,\hFC,1>>>>)
cp866_page22 == Page(<< <<\h19,\hF9,1>>, <<\h1A,\hFB,1>>>>)
cp866_page25 == Page(<< <<0,\hC4,1>>, <<2,\hB3,1>>, <<\hC,\hDA,1>>,
  <<\h10,\hBF,1>>, <<\h14,\hC0,1>>, <<\h18,\hD9,1>>, <<\h1C,\hC3,1>>,
  <<\h24,\hB4,1>>, <<\h2C,\hC2,1>>, <<\h34,\hC1,1>>, <<\h3C,\hC5,1>>,
  <<\h50,\hCD,1>>, <<\h51,\hBA,1>>, <<\h52,\hD5,2>>, <<\h54,\hC9,1>>,
  <<\h55,\hB8,1>>, <<\h56,\hB7,1>>, <<\h57,\hBB,1>>, <<\h58,\hD4,1>>,
  <<\h59,\hD3,1>>, <<\h5A,\hC8,1>>, <<\h5B,\hBE,1>>, <<\h5C,\hBD,1>>,
  <<\h5D,\hBC,1>>, <<\h5E,\hC6,2>>, <<\h60,\hCC,1>>, <<\h61,\hB5,2>>,
  <<\h63,\hB9,1>>, <<\h64,\hD1,2>>, <<\h66,\hCB,1>>, <<\h67,\hCF,2>>,
  <<\h69,\hCA,1>>, <<\h6A,\hD8,1>>, <<\h6B,\hD7,1>>, <<\h6C,\hCE,1>>,
  <<\h80,\hDF,1>>, <<\h84,\hDC,1>>, <<\h88,\hDB,1>>, <<\h8C,\hDD,1>>,
  <<\h90,\hDE,1>>, <<\h91,\hB0,3>>, <<\hA0,\hFE,1>>>>)

cp866_page_uni2charset ==
  (0 :> cp866_page00) @@ (4 :> cp866_page04) @@ (\h21 :> cp866_page21)
  @@ (\h22 :> cp866_page22) @@ (\h25 :> cp866_page25)
cp866_table == Table("cp866", cp866_charset2uni, cp866_page_uni2charset)

(* cp869: nls_cp869.c *)

cp869_charset2uni == Ascii \o <<
  0, 0, 0, 0, 0, 0, \h386, 0, \hB7, \hAC, \hA6, \h2018, \h2019, \h388, \h2015,
  \h389, \h38A, \h3AA, \h38C, 0, 0, \h38E, \h3AB, \hA9, \h38F, \hB2, \hB3,
  \h3AC, \hA3, \h3AD, \h3AE, \h3AF, \h3CA, \h390, \h3CC, \h3CD, \h391, \h392,
  \h393, \h394, \h395, \h396, \h397, \hBD, \h398, \h399, \hAB, \hBB, \h2591,
  \h2592, \h2593, \h2502, \h2524, \h39A, \h39B, \h39C, \h39D, \h2563, \h2551,
  \h2557, \h255D, \h39E, \h39F, \h2510, \h2514, \h2534, \h252C, \h251C,
  \h2500, \h253C, \h3A0, \h3A1, \h255A, \h2554, \h2569, \h2566, \h2560,
  \h2550, \h256C, \h3A3, \h3A4, \h3A5, \h3A6, \h3A7, \h3A8, \h3A9, \h3B1,
  \h3B2, \h3B3, \h2518, \h250C, \h2588, \h2584, \h3B4, \h3B5, \h2580, \h3B6,
  \h3B7, \h3B8, \h3B9, \h3BA, \h3BB, \h3BC, \h3BD, \h3BE, \h3BF, \h3C0, \h3C1,
  \h3C3, \h3C2, \h3C4, \h384, \hAD, \hB1, \h3C5, \h3C6, \h3C7, \hA7, \h3C8,
  \h385, \hB0, \hA8, \h3C9, \h3CB, \h3B0, \h3CE, \h25A0, \hA0>>

cp869_page00 == Page(<< <<1,1,127>>, <<\hA0,\hFF,1>>, <<\hA3,\h9C,1>>,
  <<\hA6,\h8A,1>>, <<\hA7,\hF5,1>>, <<\hA8,\hF9,1>>, <<\hA9,\h97,1>>,
  <<\hAB,\hAE,1>>, <<\hAC,\h89,1>>, <<\hAD,\hF0,1>>, <<\hB0,\hF8,1>>,
  <<\hB1,\hF1,1>>, <<\hB2,\h99,2>>, <<\hB7,\h88,1>>, <<\hBB,\hAF,1>>,
  <<\hBD,\hAB,1>>>>)
cp869_page03 == Page(<< <<\h84,\hEF,1>>, <<\h85,\hF7,1>>, <<\h86,\h86,1>>,
  <<\h88,\h8D,1>>, <<\h89,\h8F,2>>, <<\h8C,\h92,1>>, <<\h8E,\h95,1>>,
  <<\h8F,\h98,1>>, <<\h90,\hA1,1>>, <<\h91,\hA4,7>>, <<\h98,\hAC,2>>,
  <<\h9A,\hB5,4>>, <<\h9E,\hBD,2>>, <<\hA0,\hC6,2>>, <<\hA3,\hCF,7>>,
  <<\hAA,\h91,1>>, <<\hAB,\h96,1>>, <<\hAC,\h9B,1>>, <<\hAD,\h9D,3>>,
  <<\hB0,\hFC,1>>, <<\hB1,\hD6,3>>, <<\hB4,\hDD,2>>, <<\hB6,\hE0,12>>,
  <<\hC2,\hED,1>>, <<\hC3,\hEC,1>>, <<\hC4,\hEE,1>>, <<\hC5,\hF2,3>>,
  <<\hC8,\hF6,1>>, <<\hC9,\hFA,1>>, <<\hCA,\hA0,1>>, <<\hCB,\hFB,1>>,
  <<\hCC,\hA2,2>>, <<\hCE,\hFD,1>>>>)
cp869_page20 == Page(<< <<\h15,\h8E,1>>, <<\h18,\h8B,2>>>>)
cp869_page25 == Page(<< <<0,\hC4,1>>, <<2,\hB3,1>>, <<\hC,\hDA,1>>,
  <<\h10,\hBF,1>>, <<\h14,\hC0,1>>, <<\h18,\hD9,1>>, <<\h1C,\hC3,1>>,
  <<\h24,\hB4,1>>, <<\h2C,\hC2,1>>, <<\h34,\hC1,1>>, <<\h3C,\hC5,1>>,
  <<\h50,\hCD,1>>, <<\h51,\hBA,1>>, <<\h54,\hC9,1>>, <<\h57,\hBB,1>>,
  <<\h5A,\hC8,1>>, <<\h5D,\hBC,1>>, <<\h60,\hCC,1>>, <<\h63,\hB9,1>>,
  <<\h66,\hCB,1>>, <<\h69,\hCA,1>>, <<\h6C,\hCE,1>>, <<\h80,\hDF,1>>,
  <<\h84,\hDC,1>>, <<\h88,\hDB,1>>, <<\h91,\hB0,3>>, <<\hA0,\hFE,1>>>>)

cp869_page_uni2charset ==
  (0 :> cp869_page00) @@ (3 :> cp869_page03) @@ (\h20 :> cp869_page20)
  @@ (\h25 :> cp869_page25)
cp869_table == Table("cp869", cp869_charset2uni, cp869_page_uni2charset)

(* cp874: nls_cp874.c *)

cp874_charset2uni == Ascii \o Upper(<< <<\h85,\h2026,1>>, <<\h91,\h2018,2>>,
  <<\h93,\h201C,2>>, <<\h95,\h2022,1>>, <<\h96,\h2013,2>>, <<\hA0,\hA0,1>>,
  <<\hA1,\hE01,58>>, <<\hDF,\hE3F,29>>>>)

cp874_page00 == Page(<< <<1,1,127>>, <<\hA0,\hA0,1>>>>)
cp874_page0e == Page(<< <<1,\hA1,58>>, <<\h3F,\hDF,29>>>>)
cp874_page20 == Page(<< <<\h13,\h96,2>>, <<\h18,\h91,2>>, <<\h1C,\h93,2>>,
  <<\h22,\h95,1>>, <<\h26,\h85,1>>>>)

cp874_page_uni2charset ==
  (0 :> cp874_page00) @@ (\hE :> cp874_page0e) @@ (\h20 :> cp874_page20)
cp874_table == Table("cp874", cp874_charset2uni, cp874_page_uni2charset)
=============================================================================
