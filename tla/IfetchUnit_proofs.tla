-------------------------- MODULE IfetchUnit_proofs --------------------------
(***************************************************************************)
(* The instruction fetch unit, for any pages, cache lines and page tables, *)
(* any size of its TLB, and any order of redirections, stops and fences.   *)
(***************************************************************************)
EXTENDS IfetchUnit, TLAPS

\* compare_tag looks at the index only: the fetch stage is redirected to a
\* different one.
IndexTells == \A r \in Redirects : r[1] = r[2] \/ r[1].line # r[2].line

\* Between a change and the fence after it anything may be in the cache and the
\* TLB; otherwise they hold what the program and the page table do.
Current(e) == e.valid => e.text = text[e.tag]
CacheOK == ~stores => \A l \in Lines : Current(cache[l])
TlbOK == ~remaps => \A e \in itlb : e.pte = ptab[e.page]

\* The tag that is compared is the one for the address asked for, unless the
\* index shows that the fetch stage has gone elsewhere.
CompareOK ==
  st = "compare" =>
    /\ ~stores => Current(arg.entry)
    /\ read /\ ~remaps /\ SameLine => arg.page = Physical(addr.page)

\* The lines invalidate_cache has done stay invalid.
InvalidateOK == st = "invalidate" => \A l \in Lines \ left : ~cache[l].valid

TypesOK == DOMAIN cache = Lines /\ addr \in Addrs /\ arg.line \in Lines

IInv == TypesOK /\ CacheOK /\ TlbOK /\ CompareOK /\ InvalidateOK

-----------------------------------------------------------------------------
(* What the pipeline and rv32x_core do to program and page table: they set   *)
(* a mark when they change them, and take it off when the unit has said that *)
(* its fence is done.                                                        *)

LEMMA ClientMarks ==
  ASSUME Client
  PROVE  /\ ~stores' => text' = text /\ (~stores \/ reply'.kind = "invalidate_done")
         /\ ~remaps' => /\ ptab' = ptab /\ (~remaps \/ reply'.kind = "flush_done")
                        /\ read => sv32' = sv32
         /\ read /\ ~remaps' => ~remaps
<1>1. CASE Fetch BY <1>1, Zenon DEF Fetch
<1>2. CASE Stop BY <1>2, Zenon DEF Stop
<1>3. CASE Elsewhere
  <2> USE <1>3 DEF Elsewhere
  <2>1. ~stores' => text' = text /\ ~stores
    BY Zenon
  <2>2. ~remaps' => ptab' = ptab /\ ~remaps /\ (read => sv32' = sv32)
    BY Zenon
  <2> QED BY <2>1, <2>2
<1>4. CASE Acknowledge BY <1>4, Zenon DEF Acknowledge
<1>5. CASE Restart BY <1>5, Zenon DEF Restart
<1> QED BY <1>1, <1>2, <1>3, <1>4, <1>5 DEF Client

\* While the fetch stage asks it moves along Redirects only, unless it was
\* given its instruction.
LEMMA ClientMoves ==
  ASSUME Client, addr \in Addrs
  PROVE  /\ addr' \in Addrs
         /\ read /\ ~(reply'.kind = "ready") => addr' = addr \/ <<addr, addr'>> \in Redirects
<1>1. CASE Fetch BY <1>1, Zenon DEF Fetch
<1>2. CASE Stop BY <1>2, Zenon DEF Stop
<1>3. CASE Elsewhere BY <1>3, Zenon DEF Elsewhere
<1>4. CASE Acknowledge BY <1>4, Zenon DEF Acknowledge
<1>5. CASE Restart BY <1>5, Zenon DEF Restart
<1> QED BY <1>1, <1>2, <1>3, <1>4, <1>5, Zenon DEF Client

-----------------------------------------------------------------------------
(* The procedures of the unit.                                               *)

LEMMA TypesStep ==
  ASSUME TypesOK, Unit, Client
  PROVE  TypesOK'
<1> USE DEF TypesOK
<1>1. addr' \in Addrs
  BY ClientMoves
<1>2. DOMAIN cache' = Lines
  BY DEF Unit, Idle, FlushTlb, PageTableWalk, CompareTag, Allocate, InvalidateCache
<1>3. arg'.line \in Lines
  <2>1. addr.line \in Lines
    BY DEF Addrs
  <2>2. NoArg.line \in Lines
    BY <2>1 DEF NoArg
  <2>3. CASE Idle
    BY <2>1, <2>2, <2>3 DEF Idle, Lookup, Call
  <2>4. CASE FlushTlb
    BY <2>2, <2>4 DEF FlushTlb, Return
  <2>5. CASE PageTableWalk
    BY <2>2, <2>5 DEF PageTableWalk, Return
  <2>6. CASE CompareTag
    BY <2>2, <2>6 DEF CompareTag, Return, Call
  <2>7. CASE Allocate
    BY <2>2, <2>7 DEF Allocate, Return
  <2>8. CASE InvalidateCache
    BY <2>2, <2>8 DEF InvalidateCache, Return
  <2> QED BY <2>3, <2>4, <2>5, <2>6, <2>7, <2>8 DEF Unit
<1> QED BY <1>1, <1>2, <1>3

\* What the unit says, and when.
LEMMA UnitSays ==
  ASSUME Unit
  PROVE  /\ reply'.kind = "invalidate_done" =>
              st = "invalidate" /\ left = {} /\ cache' = cache
         /\ reply'.kind = "flush_done" => itlb' = {}
         /\ reply'.kind = "ready" => st = "compare" /\ TagMatch /\ SameLine /\ read
<1> USE DEF Say, Done, Quiet
<1>1. CASE Idle BY <1>1 DEF Idle
<1>2. CASE FlushTlb BY <1>2 DEF FlushTlb
<1>3. CASE PageTableWalk BY <1>3 DEF PageTableWalk
<1>4. CASE CompareTag BY <1>4 DEF CompareTag
<1>5. CASE Allocate BY <1>5 DEF Allocate
<1>6. CASE InvalidateCache BY <1>6 DEF InvalidateCache
<1> QED BY <1>1, <1>2, <1>3, <1>4, <1>5, <1>6 DEF Unit

\* What is put into the cache and the TLB.
LEMMA UnitFills ==
  ASSUME TypesOK, Unit
  PROVE  /\ \A l \in Lines : \/ cache'[l] = cache[l]
                             \/ ~cache'[l].valid
                             \/ cache'[l] = [valid |-> TRUE, tag |-> arg.page, text |-> text[arg.page]]
         /\ \A e \in itlb' : e \in itlb \/ e = [page |-> arg.page, pte |-> ptab[arg.page]]
<1> USE DEF TypesOK, Empty
<1>1. CASE Idle BY <1>1 DEF Idle
<1>2. CASE FlushTlb BY <1>2 DEF FlushTlb
<1>3. CASE PageTableWalk BY <1>3 DEF PageTableWalk, Refilled
<1>4. CASE CompareTag BY <1>4 DEF CompareTag
<1>5. CASE Allocate BY <1>5 DEF Allocate
<1>6. CASE InvalidateCache BY <1>6 DEF InvalidateCache
<1> QED BY <1>1, <1>2, <1>3, <1>4, <1>5, <1>6 DEF Unit

\* The end of a fence.i finds no valid line.
LEMMA CacheStep ==
  ASSUME TypesOK, CacheOK, InvalidateOK, Unit, Client
  PROVE  CacheOK'
<1> SUFFICES ASSUME ~stores', NEW l \in Lines, cache'[l].valid
             PROVE  cache'[l].text = text'[cache'[l].tag]
  BY DEF CacheOK, Current
<1>1. text' = text
  BY ClientMarks
<1>2. ~stores
  <2> SUFFICES ASSUME reply'.kind = "invalidate_done" PROVE FALSE
    BY ClientMarks
  <2>1. st = "invalidate" /\ left = {} /\ cache' = cache
    BY UnitSays
  <2> QED BY <2>1 DEF InvalidateOK
<1>3. Current(cache[l])
  BY <1>2 DEF CacheOK
<1> QED BY <1>1, <1>3, UnitFills DEF Current

\* The end of an sfence.vma leaves no entry.
LEMMA TlbStep ==
  ASSUME TypesOK, TlbOK, Unit, Client
  PROVE  TlbOK'
<1> SUFFICES ASSUME ~remaps', NEW e \in itlb'
             PROVE  e.pte = ptab'[e.page]
  BY DEF TlbOK
<1>1. ptab' = ptab
  BY ClientMarks
<1>2. ~remaps
  BY ClientMarks, UnitSays
<1> QED BY <1>1, <1>2, UnitFills DEF TlbOK

LEMMA InvalidateStep ==
  ASSUME TypesOK, InvalidateOK, Unit
  PROVE  InvalidateOK'
<1> SUFFICES ASSUME st' = "invalidate", NEW l \in Lines, l \notin left'
             PROVE  ~cache'[l].valid
  BY DEF InvalidateOK
<1> USE DEF TypesOK
<1>1. CASE Idle
  BY <1>1 DEF Idle, Lookup, Call
<1>2. CASE FlushTlb BY <1>2 DEF FlushTlb, Return
<1>3. CASE PageTableWalk BY <1>3 DEF PageTableWalk, Return
<1>4. CASE CompareTag BY <1>4 DEF CompareTag, Return, Call
<1>5. CASE Allocate BY <1>5 DEF Allocate, Return
<1>6. CASE InvalidateCache BY <1>6 DEF InvalidateCache, InvalidateOK, Return, Empty
<1> QED BY <1>1, <1>2, <1>3, <1>4, <1>5, <1>6 DEF Unit

\* A lookup begins from the address asked for in that clock.
LEMMA Begun ==
  ASSUME Unit, st' = "compare"
  PROVE  /\ ~invalidate /\ ~tlb_flush /\ read /\ reply'.kind = "none"
         /\ arg'.line = addr.line /\ arg'.entry = cache[addr.line]
         /\ ~remaps /\ TlbOK => arg'.page = Physical(addr.page)
<1>1. CASE Idle
  BY <1>1 DEF Idle, Lookup, Call, Quiet, Say, Hits, TlbOK, Physical
<1>2. CASE FlushTlb BY <1>2 DEF FlushTlb, Return
<1>3. CASE PageTableWalk BY <1>3 DEF PageTableWalk, Return
<1>4. CASE CompareTag BY <1>4 DEF CompareTag, Return, Call
<1>5. CASE Allocate BY <1>5 DEF Allocate, Return
<1>6. CASE InvalidateCache BY <1>6 DEF InvalidateCache, Return
<1> QED BY <1>1, <1>2, <1>3, <1>4, <1>5, <1>6 DEF Unit

LEMMA CompareStep ==
  ASSUME IndexTells, TypesOK, CacheOK, TlbOK, Unit, Client
  PROVE  CompareOK'
<1> SUFFICES ASSUME st' = "compare"
             PROVE  /\ ~stores' => Current(arg.entry)'
                    /\ read' /\ ~remaps' /\ SameLine' => arg'.page = Physical(addr.page)'
  BY DEF CompareOK
<1>1. /\ ~invalidate /\ ~tlb_flush /\ read /\ reply'.kind = "none"
      /\ arg'.line = addr.line /\ arg'.entry = cache[addr.line]
  BY Begun
<1>2. ~stores' => Current(arg.entry)'
  <2> SUFFICES ASSUME ~stores' PROVE Current(arg.entry)'
    OBVIOUS
  <2>1. ~stores /\ text' = text
    BY <1>1, ClientMarks
  <2>2. addr.line \in Lines
    BY DEF TypesOK, Addrs
  <2>3. Current(cache[addr.line])
    BY <2>1, <2>2 DEF CacheOK
  <2> QED BY <1>1, <2>1, <2>3 DEF Current
<1>3. ASSUME ~remaps', SameLine'
      PROVE  arg'.page = Physical(addr.page)'
  <2>1. ~remaps /\ ptab' = ptab /\ sv32' = sv32
    BY <1>1, <1>3, ClientMarks
  <2>2. addr' = addr
    BY <1>1, <1>3, ClientMoves DEF IndexTells, SameLine, TypesOK
  <2>3. arg'.page = Physical(addr.page)
    BY <2>1, Begun
  <2> QED BY <2>1, <2>2, <2>3 DEF Physical
<1> QED BY <1>2, <1>3

LEMMA InitOK == Init => IInv
<1> SUFFICES ASSUME Init PROVE IInv
  OBVIOUS
<1>1. PICK l \in Lines : TRUE
  BY IfetchUnitAssumption
<1>2. PICK p \in Pages : TRUE
  BY IfetchUnitAssumption
<1>3. Anywhere \in Addrs
  <2>1. [page |-> p, line |-> l] \in Addrs
    BY DEF Addrs
  <2> QED BY <2>1, Zenon DEF Anywhere
<1> QED BY <1>1, <1>3 DEF Init, IInv, TypesOK, CacheOK, TlbOK, CompareOK, InvalidateOK,
                          Current, Empty, NoArg

\* The two invariants that need no assumption on redirections.
LEMMA MemoriesOK == Spec => [](TypesOK /\ CacheOK /\ TlbOK /\ InvalidateOK)
<1>1. Init => TypesOK /\ CacheOK /\ TlbOK /\ InvalidateOK
  BY InitOK DEF IInv
<1>2. TypesOK /\ CacheOK /\ TlbOK /\ InvalidateOK /\ [Next]_vars
      => (TypesOK /\ CacheOK /\ TlbOK /\ InvalidateOK)'
  <2> SUFFICES ASSUME TypesOK, CacheOK, TlbOK, InvalidateOK, [Next]_vars
               PROVE  (TypesOK /\ CacheOK /\ TlbOK /\ InvalidateOK)'
    OBVIOUS
  <2>1. CASE Next
    BY <2>1, TypesStep, CacheStep, TlbStep, InvalidateStep DEF Next
  <2>2. CASE UNCHANGED vars
    BY <2>2 DEF vars, unit, client, TypesOK, CacheOK, TlbOK, InvalidateOK, Current
  <2> QED BY <2>1, <2>2
<1> QED BY <1>1, <1>2, PTL DEF Spec

LEMMA CompareStays ==
  ASSUME IndexTells
  PROVE  Spec => []CompareOK
<1>1. Init => CompareOK
  BY InitOK DEF IInv
<1>2. CompareOK /\ (TypesOK /\ CacheOK /\ TlbOK /\ InvalidateOK) /\ [Next]_vars => CompareOK'
  <2> SUFFICES ASSUME CompareOK, TypesOK, CacheOK, TlbOK, [Next]_vars
               PROVE  CompareOK'
    OBVIOUS
  <2>1. CASE Next
    BY <2>1, CompareStep DEF Next
  <2>2. CASE UNCHANGED vars
    BY <2>2 DEF vars, unit, client, CompareOK, Current, SameLine, Physical
  <2> QED BY <2>1, <2>2
<1> QED BY <1>1, <1>2, MemoriesOK, PTL DEF Spec

-----------------------------------------------------------------------------
(* The fetch stage receives the instruction at the address it asks for, as   *)
(* program and page table stood at the last fence.i and sfence.vma, if it is *)
(* redirected to addresses with another index only.                          *)
THEOREM RightIsFetched == IndexTells => (Spec => []RightInstruction)
<1>1. Init => RightInstruction
  BY DEF Init, RightInstruction, Quiet
<1>2. ASSUME CompareOK, TypesOK, CacheOK, TlbOK, InvalidateOK, RightInstruction, [Next]_vars
      PROVE  RightInstruction'
  <2>1. CASE Next
    <3> SUFFICES ASSUME reply'.kind = "ready", ~stores', ~remaps'
                 PROVE  /\ reply'.is = [page |-> Physical(reply.at.page)', line |-> reply'.at.line]
                        /\ reply'.text = text'[reply'.is.page]
      BY DEF RightInstruction
    <3>1. Unit /\ Client
      BY <2>1 DEF Next
    <3>2. st = "compare" /\ TagMatch /\ SameLine /\ read
      BY <3>1, UnitSays
    <3>3. ~stores /\ text' = text /\ ~remaps /\ ptab' = ptab /\ sv32' = sv32
      BY <3>1, <3>2, ClientMarks
    <3>4. /\ reply'.is = [page |-> arg.entry.tag, line |-> arg.line]
          /\ reply'.text = arg.entry.text /\ reply'.at = addr
      BY <3>1, <3>2 DEF Unit, Idle, FlushTlb, PageTableWalk, CompareTag, Allocate,
                        InvalidateCache, Say, Quiet
    <3>5. /\ arg.page = Physical(addr.page)
          /\ arg.entry.text = text[arg.entry.tag]
      BY <1>2, <3>2, <3>3 DEF CompareOK, Current, TagMatch
    <3> QED BY <3>2, <3>3, <3>4, <3>5 DEF TagMatch, SameLine, Physical
  <2>2. CASE UNCHANGED vars
    BY <1>2, <2>2 DEF vars, unit, client, RightInstruction, Physical
  <2> QED BY <1>2, <2>1, <2>2
<1>3. ASSUME IndexTells
      PROVE  Spec => []RightInstruction
  BY <1>1, <1>2, <1>3, MemoriesOK, CompareStays, PTL DEF Spec
<1> QED BY <1>3

(* A page fault is raised for a page the page table does not grant, however  *)
(* long before the entry of the TLB was loaded.                              *)
THEOREM FaultsAreReal == Spec => []FaultIsReal
<1>1. Init => FaultIsReal
  BY DEF Init, FaultIsReal, Quiet
<1>2. ASSUME TypesOK, TlbOK, FaultIsReal, [Next]_vars
      PROVE  FaultIsReal'
  <2>1. CASE Next
    <3> SUFFICES ASSUME reply'.kind = "page_fault", ~remaps'
                 PROVE  ptab'[reply'.is.page] \in {"none", "deny"}
      BY DEF FaultIsReal
    <3>1. Unit /\ Client
      BY <2>1 DEF Next
    <3>2. ~remaps /\ ptab' = ptab
      BY <3>1, ClientMarks
    <3>3. \/ \E e \in itlb : e.pte = "deny" /\ e.page = reply'.is.page
          \/ ptab[reply'.is.page] = "none"
      BY <3>1 DEF Unit, Idle, FlushTlb, PageTableWalk, CompareTag, Allocate,
                  InvalidateCache, Say, Done, Quiet, Hits
    <3> QED BY <1>2, <3>2, <3>3 DEF TlbOK
  <2>2. CASE UNCHANGED vars
    BY <1>2, <2>2 DEF vars, unit, client, FaultIsReal
  <2> QED BY <1>2, <2>1, <2>2
<1> QED BY <1>1, <1>2, MemoriesOK, PTL DEF Spec
=============================================================================
