------------------------------ MODULE NlsInit ------------------------------
(* The tables that are linked into the programs, for the constants of       *)
(* NlsBase.                                                                 *)
EXTENDS NlsDos, NlsIso

\* The calls of init_nls, in its order
init_nls_calls == <<
  iso8859_1_table, iso8859_2_table, iso8859_3_table, iso8859_4_table,
  iso8859_5_table, iso8859_6_table, iso8859_7_table, iso8859_8_table,
  iso8859_9_table, iso8859_14_table, iso8859_15_table,
  cp437_table, cp737_table, cp775_table, cp850_table, cp852_table,
  cp855_table, cp857_table, cp860_table, cp861_table, cp862_table,
  cp863_table, cp864_table, cp865_table, cp866_table, cp869_table,
  cp874_table, koi8_r_table, mac_roman_table>>

RegisteredInOrder ==
  LET calls == init_nls_calls
  IN  [i \in DOMAIN calls |-> calls[i].charset]

LinkedTables ==
  LET tables == {init_nls_calls[i] : i \in DOMAIN init_nls_calls}
                \cup {default_table}
  IN  [charset \in {t.charset : t \in tables} |->
         CHOOSE t \in tables : t.charset = charset]
=============================================================================
