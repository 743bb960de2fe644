----------------------------- MODULE ElfLoader -----------------------------
(***************************************************************************)
(* The simulator's memory list and the loading of an executable into it,   *)
(* src/simulation/elfloader/elfloader.c.  The list is a value the test     *)
(* bench keeps; each operator gives the list after an operation, or what a *)
(* look-up in it returns.                                                  *)
(***************************************************************************)
EXTENDS Integers, Sequences

CONSTANTS
  Bytes,
  Junk,       \* the contents of memory nobody has written
  Nothing,    \* no entry, no byte
  Margin      \* the 1024 bytes added to an area made for a section

ASSUME ElfAssumption ==
  /\ Junk \in Bytes /\ Nothing \notin Bytes
  /\ Margin \in Nat

\* struct memlist.  attrs is always 0.
Entry(name, origin, length, mem) ==
  [name |-> name, origin |-> origin, length |-> length, mem |-> mem]

\* create_new_mem
NewMem(length) == [o \in 0 .. length - 1 |-> Junk]

\* init_mem_list: the root is skipped by its name.
MemList == <<Entry("null", 0, 0, NewMem(0))>>

InsertNewMem(list, name, origin, length) ==
  Append(list, Entry(name, origin, length, NewMem(length)))

Covers(e, a) == e.name # "null" /\ e.origin <= a /\ a < e.origin + e.length

\* find_mem_entry: the index of the first entry, or 0
FindMemEntry(list, a) ==
  LET found == {i \in DOMAIN list : Covers(list[i], a)}
  IN IF found = {} THEN 0 ELSE CHOOSE i \in found : \A j \in found : i <= j

-----------------------------------------------------------------------------
(* Reads look the first address up and take what follows it, behind the end  *)
(* of the area too; writes look every byte up.                               *)

Loaded(e, a) == IF Covers(e, a) THEN e.mem[a - e.origin] ELSE Junk

\* read_byte, read_halfword, read_word: n bytes, or nothing
ReadMem(list, a, n) ==
  LET i == FindMemEntry(list, a)
  IN IF i = 0 THEN Nothing ELSE [k \in 0 .. n - 1 |-> Loaded(list[i], a + k)]

\* write_byte, write_halfword, write_word: what lies in no area is not written.
WriteMem(list, a, bytes) ==
  [i \in DOMAIN list |-> [list[i] EXCEPT !.mem =
    [o \in DOMAIN @ |->
      LET k == list[i].origin + o - a + 1
      IN IF k \in DOMAIN bytes /\ FindMemEntry(list, a + k - 1) = i THEN bytes[k] ELSE @[o]]]]

\* The status of the write, the or of the status of its bytes
Writable(list, a, n) == \A k \in 0 .. n - 1 : FindMemEntry(list, a + k) # 0

-----------------------------------------------------------------------------
(* Sections.                                                                 *)

\* bfd_get_section_by_name: of several sections with a name, the first one
SectionByName(sections, name) ==
  sections[CHOOSE i \in DOMAIN sections :
             /\ sections[i].name = name
             /\ \A j \in DOMAIN sections : sections[j].name = name => i <= j]

\* load_section, when it has the section: the contents go to where the first
\* address is found, as far as the area reaches.
\* Variant: the offset into the area is forgotten.
LoadAtOrigin(list, s) ==
  LET i == FindMemEntry(list, s.vma)
  IN [list EXCEPT ![i].mem =
       [o \in DOMAIN @ |-> IF o + 1 \in DOMAIN s.data THEN s.data[o + 1] ELSE @[o]]]
LoadSection(list, s) ==
  LET i == FindMemEntry(list, s.vma)
      start == s.vma - list[i].origin
  IN [list EXCEPT ![i].mem =
       [o \in DOMAIN @ |-> IF o - start + 1 \in DOMAIN s.data THEN s.data[o - start + 1] ELSE @[o]]]

\* The contents reach behind the end of the area.
Overruns(list, s) ==
  LET e == list[FindMemEntry(list, s.vma)]
  IN s.vma + Len(s.data) > e.origin + e.length

\* load_elf makes an area for a section no area holds the start of.
Placed(list, s) ==
  IF s.alloc /\ FindMemEntry(list, s.vma) = 0
  THEN InsertNewMem(list, s.name, s.vma, s.size + Margin)
  ELSE list

\* It gives up when the area it finds is smaller than the section.
TooSmall(list, s) ==
  LET i == FindMemEntry(list, s.vma)
  IN s.alloc /\ i # 0 /\ list[i].length < s.size
=============================================================================
