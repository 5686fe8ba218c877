------------------------------ MODULE NlsBase ------------------------------
(***************************************************************************)
(* The list of translation tables (libunls/nls_base.c) and the use that is *)
(* made of one table.  A table is known by the name of its character set.  *)
(***************************************************************************)
EXTENDS NlsTables, SequencesExt

CONSTANTS
  TableNamed,    \* function: the tables that are linked in, by character set
  InitOrder      \* the tables init_nls registers, in its order

\* The new table goes to the head of the list; one that is in it is busy.
register_nls(tables, charset) ==
  IF charset \in ToSet(tables) THEN tables ELSE <<charset>> \o tables

init_nls == FoldLeft(register_nls, <<>>, InitOrder)

NoTable == ""

find_nls(charset) == IF charset \in ToSet(init_nls) THEN charset ELSE NoTable

\* Without CONFIG_KMOD nothing is loaded that is not in the list.
load_nls(charset) == find_nls(charset)

\* The table that is not in the list
load_nls_default == "default"

Tables == TableNamed    \* evaluated once, like Stored

\* Code point to character: by the page of its high byte; zero means none.
uni2char(nls, unit) ==
  LET pages == Tables[nls].page_uni2charset
      high  == unit \div 256
  IN  IF high \in DOMAIN pages THEN pages[high][1 + (unit % 256)] ELSE 0

\* Character to code point; zero means none.
char2uni(nls, char) == Tables[nls].charset2uni[char + 1]
=============================================================================
