----------------------------- MODULE IfetchUnit -----------------------------
(***************************************************************************)
(* The instruction fetch unit, src/core/ifetch_unit.nsl: a direct-mapped   *)
(* instruction cache with a TLB in front of it, as seen by the pipeline    *)
(* that reads from it, redirects it, and invalidates it on fence.i and     *)
(* sfence.vma.  One step is one clock.                                     *)
(*                                                                         *)
(* The unit is a procedure at a time (st).  What a procedure was called    *)
(* with (a page, an index, a cache line) is registered, here in arg; addr  *)
(* is not registered and is read again in every clock, as in the source.   *)
(*                                                                         *)
(* Pages stand for the 20 upper address bits, virtual or physical, and     *)
(* Lines for the index.  An instruction is identified by the physical page *)
(* it was read from and by the version of the program that page held.      *)
(***************************************************************************)
EXTENDS Naturals, FiniteSets

CONSTANTS
  Pages, Lines,
  TlbSize,        \* entries of the TLB
  Redirects,      \* pairs of addresses the fetch stage may be moved between
  Modes,          \* values of sv32 in use
  Faults          \* what a walk may end in: "none", no leaf; "nowhere", no memory

Addrs == [page : Pages, line : Lines]

ASSUME IfetchUnitAssumption ==
  /\ Pages # {} /\ Lines # {} /\ IsFiniteSet(Lines)
  /\ TlbSize \in Nat \ {0}
  /\ Redirects \subseteq Addrs \X Addrs
  /\ Modes \subseteq BOOLEAN /\ FALSE \in Modes
  /\ Faults \subseteq {"none", "nowhere"}

VARIABLES
  st, arg,     \* procedure that is active, its arguments
  left,        \* lines invalidate_cache has still to do
  cache, itlb,
  read, addr,  \* what the fetch stage asks
  sv32,        \* translation is on
  invalidate, tlb_flush,   \* what fence.i and sfence.vma ask
  text,        \* version of the program in each physical page
  ptab,        \* page table: a page, "deny" (no permission), or a fault
  stores, remaps,   \* code or page table written since the last fence
  reply        \* outputs of the clock before

unit   == <<st, arg, left, cache, itlb>>
client == <<read, addr, sv32, invalidate, tlb_flush, text, ptab, stores, remaps>>
vars   == <<unit, client, reply>>

Versions == {0, 1}
Empty    == [valid |-> FALSE, tag |-> CHOOSE p \in Pages : TRUE, text |-> 0]
Entries  == [valid : BOOLEAN, tag : Pages, text : Versions]
Ptes     == Pages \cup {"deny"}
NoArg    == [page |-> CHOOSE p \in Pages : TRUE, line |-> CHOOSE l \in Lines : TRUE, entry |-> Empty]
Anywhere == CHOOSE a \in Addrs : TRUE
Quiet    == [kind |-> "none", asked |-> FALSE, at |-> Anywhere, is |-> Anywhere, text |-> 0]

TypeOK ==
  /\ st \in {"idle", "compare", "allocate", "walk", "flush", "invalidate"}
  /\ arg \in [page : Pages, line : Lines, entry : Entries]
  /\ left \subseteq Lines
  /\ cache \in [Lines -> Entries]
  /\ itlb \subseteq [page : Pages, pte : Ptes] /\ Cardinality(itlb) <= TlbSize
  /\ read \in BOOLEAN /\ addr \in Addrs /\ sv32 \in BOOLEAN
  /\ invalidate \in BOOLEAN /\ tlb_flush \in BOOLEAN
  /\ text \in [Pages -> Versions] /\ ptab \in [Pages -> Ptes \cup Faults]
  /\ stores \in BOOLEAN /\ remaps \in BOOLEAN
  /\ reply \in [kind : {"none", "ready", "page_fault", "access_fault", "invalidate_done", "flush_done"},
                asked : BOOLEAN, at : Addrs, is : Addrs, text : Versions]

Init ==
  /\ st = "idle" /\ arg = NoArg
  /\ left = {}
  /\ cache = [l \in Lines |-> Empty] /\ itlb = {}
  /\ read = FALSE /\ addr = Anywhere /\ sv32 = FALSE
  /\ invalidate = FALSE /\ tlb_flush = FALSE
  /\ text = [p \in Pages |-> 0] /\ ptab = [p \in Pages |-> "deny"]
  /\ stores = FALSE /\ remaps = FALSE
  /\ reply = Quiet

-----------------------------------------------------------------------------
(* Procedures of the unit.  Each leaves the registers of the others alone.   *)

\* What the unit answers, and the address it holds when it does.
Say(kind, page, l, version) ==
  reply' = [kind |-> kind, asked |-> read, at |-> addr,
            is |-> [page |-> page, line |-> l], text |-> version]
Done(kind) == Say(kind, Anywhere.page, Anywhere.line, 0)

Call(proc, page, l, e) == st' = proc /\ arg' = [page |-> page, line |-> l, entry |-> e]
Return == st' = "idle" /\ arg' = NoArg

Lookup(physical) == Call("compare", physical, addr.line, cache[addr.line])

\* Variant: the TLB does not compare tags.
HitsAnything(page) == itlb

Hits(page) == {e \in itlb : e.page = page}

Idle ==
  /\ st = "idle"
  /\ UNCHANGED <<cache, itlb>>
  /\ \/ /\ invalidate
        /\ st' = "invalidate" /\ left' = Lines /\ UNCHANGED arg /\ reply' = Quiet
     \/ /\ ~invalidate /\ tlb_flush
        /\ st' = "flush" /\ UNCHANGED <<arg, left>> /\ reply' = Quiet
     \/ /\ ~invalidate /\ ~tlb_flush /\ read /\ ~sv32
        /\ Lookup(addr.page) /\ UNCHANGED left /\ reply' = Quiet
     \/ /\ ~invalidate /\ ~tlb_flush /\ read /\ sv32 /\ UNCHANGED left
        /\ \/ \E e \in Hits(addr.page) : e.pte # "deny" /\ Lookup(e.pte) /\ reply' = Quiet
           \/ /\ \E e \in Hits(addr.page) : e.pte = "deny"
              /\ UNCHANGED <<st, arg>> /\ Say("page_fault", addr.page, addr.line, 0)
           \/ /\ Hits(addr.page) = {}
              /\ Call("walk", addr.page, NoArg.line, Empty) /\ reply' = Quiet
     \/ /\ ~invalidate /\ ~tlb_flush /\ ~read
        /\ UNCHANGED <<st, arg, left>> /\ reply' = Quiet

\* Variant: the TLB says it is flushed and keeps its entries.
FlushTlbNot ==
  /\ st = "flush"
  /\ Return /\ Done("flush_done")
  /\ UNCHANGED <<left, cache, itlb>>

FlushTlb ==
  /\ st = "flush"
  /\ itlb' = {} /\ Return /\ Done("flush_done")
  /\ UNCHANGED <<left, cache>>

\* tlb_4 replaces the entry a free-running counter points at.
Refilled(e) ==
  (IF Cardinality(itlb \cup {e}) <= TlbSize THEN {itlb \cup {e}} ELSE {})
    \cup {(itlb \ {o}) \cup {e} : o \in itlb}

\* Variant: a walk that faults is not left.
PageTableWalkStays ==
  /\ st = "walk"
  /\ UNCHANGED <<left, cache>>
  /\ \/ /\ ptab[arg.page] \in Ptes
        /\ itlb' \in Refilled([page |-> arg.page, pte |-> ptab[arg.page]])
        /\ Return /\ reply' = Quiet
     \/ /\ ptab[arg.page] \notin Ptes
        /\ UNCHANGED <<st, arg, itlb>> /\ reply' = Quiet

PageTableWalk ==
  /\ st = "walk"
  /\ UNCHANGED <<left, cache>>
  /\ \/ /\ UNCHANGED <<st, arg, itlb>> /\ reply' = Quiet     \* the walker is busy
     \/ /\ ptab[arg.page] \in Ptes                           \* pte_ready
        /\ itlb' \in Refilled([page |-> arg.page, pte |-> ptab[arg.page]])
        /\ Return /\ reply' = Quiet
     \/ /\ ptab[arg.page] = "none"                           \* walk_page_fault
        /\ UNCHANGED itlb
        /\ Return /\ Say("page_fault", arg.page, addr.line, 0)
     \/ /\ ptab[arg.page] = "nowhere"                        \* walk_access_fault
        /\ UNCHANGED <<st, arg, itlb>>
        /\ Say("access_fault", arg.page, addr.line, 0)

TagMatch == arg.entry.valid /\ arg.entry.tag = arg.page
\* Variant: a redirected read is not cancelled.
AnyLine == TRUE
SameLine == arg.line = addr.line

\* addr is undriven while read is not asserted: its index may be any.
CompareTag ==
  /\ st = "compare"
  /\ UNCHANGED <<left, cache, itlb>>
  /\ \/ /\ TagMatch /\ SameLine /\ read
        /\ Return /\ Say("ready", arg.entry.tag, arg.line, arg.entry.text)
     \/ /\ ~read \/ ~SameLine
        /\ Return /\ reply' = Quiet
     \/ /\ ~TagMatch /\ (SameLine \/ ~read)
        /\ Call("allocate", arg.page, arg.line, Empty) /\ reply' = Quiet

Allocate ==
  /\ st = "allocate"
  /\ UNCHANGED <<left, itlb>> /\ reply' = Quiet
  /\ \/ UNCHANGED <<st, arg, cache>>                         \* the bus is busy
     \/ /\ cache' = [cache EXCEPT ![arg.line] =
                       [valid |-> TRUE, tag |-> arg.page, text |-> text[arg.page]]]
        /\ Return

\* Variants: the lines are left valid; the end is not reported.
InvalidateNothing ==
  /\ st = "invalidate" /\ UNCHANGED <<itlb, cache, left>>
  /\ Return /\ Done("invalidate_done")
InvalidateSilently ==
  /\ st = "invalidate" /\ UNCHANGED itlb
  /\ cache' = [l \in Lines |-> Empty] /\ left' = {} /\ Return /\ reply' = Quiet

InvalidateCache ==
  /\ st = "invalidate"
  /\ UNCHANGED itlb
  /\ \/ \E l \in left :
          /\ cache' = [cache EXCEPT ![l] = Empty]    \* its tag and data no longer matter
          /\ left' = left \ {l}
          /\ UNCHANGED <<st, arg>> /\ reply' = Quiet
     \/ /\ left = {}
        /\ Return /\ UNCHANGED <<cache, left>> /\ Done("invalidate_done")

Unit == Idle \/ FlushTlb \/ PageTableWalk \/ CompareTag \/ Allocate \/ InvalidateCache

-----------------------------------------------------------------------------
(* The pipeline and rv32x_core.                                              *)

\* The fetch stage goes on, or stays, or is redirected by a jump; fence.i and
\* sfence.vma raise their requests one clock before it stops.
Fetch ==
  /\ read /\ read' = TRUE /\ ~invalidate
  /\ addr' \in {a \in Addrs : \/ a = addr
                              \/ reply'.kind = "ready"
                              \/ <<addr, a>> \in Redirects}
  /\ \/ UNCHANGED <<invalidate, tlb_flush>>
     \/ invalidate' = TRUE /\ tlb_flush' \in BOOLEAN
  /\ UNCHANGED <<sv32, text, ptab, stores, remaps>>

\* A trap, a fence or a fault stops it (ifetch.finish()).
Stop ==
  /\ read /\ read' = FALSE
  /\ UNCHANGED <<addr, sv32, invalidate, tlb_flush, text, ptab, stores, remaps>>

\* Older instructions store to code and page tables, write satp, and change
\* the mode; only a change of mode, which stops the fetch, needs no sfence.vma.
Elsewhere ==
  /\ ~invalidate /\ ~tlb_flush /\ UNCHANGED <<read, addr, invalidate, tlb_flush>>
  /\ \/ \E p \in Pages : text' = [text EXCEPT ![p] = 1 - @] /\ stores' = TRUE
                         /\ UNCHANGED <<sv32, ptab, remaps>>
     \/ /\ TRUE \in Modes
        /\ \E p \in Pages, q \in Ptes \cup Faults : ptab' = [ptab EXCEPT ![p] = q]
        /\ remaps' = TRUE
        /\ UNCHANGED <<sv32, text, stores>>
     \/ /\ sv32' \in Modes /\ remaps' = (remaps \/ (read /\ sv32' # sv32))
        /\ UNCHANGED <<text, ptab, stores>>

\* ic_invalidate_done and ic_tlb_flush_done end the requests.
Acknowledge ==
  /\ ~read /\ read' = FALSE /\ (invalidate \/ tlb_flush)
  /\ invalidate' = (invalidate /\ reply'.kind # "invalidate_done")
  /\ tlb_flush' = (tlb_flush /\ reply'.kind # "flush_done")
  /\ stores' = (stores /\ reply'.kind # "invalidate_done")
  /\ remaps' = (remaps /\ reply'.kind # "flush_done")
  /\ UNCHANGED <<addr, sv32, text, ptab>>

Restart ==
  /\ ~read /\ read' = TRUE /\ ~invalidate /\ ~tlb_flush
  /\ addr' \in Addrs
  /\ UNCHANGED <<sv32, invalidate, tlb_flush, text, ptab, stores, remaps>>

Client == Fetch \/ Stop \/ Elsewhere \/ Acknowledge \/ Restart

Next == Unit /\ Client

Spec == Init /\ [][Next]_vars

\* The walker and the memory bus answer in the end.
FairSpec == Spec /\ WF_vars(Next) /\ WF_vars(Next /\ st' # st)

-----------------------------------------------------------------------------
(* Properties.                                                               *)

Physical(p) == IF sv32 THEN ptab[p] ELSE p

(* The fetch stage receives the instruction at the address it asks for, as   *)
(* program and page tables stood at the last fence.i and sfence.vma, however *)
(* often it was redirected or stopped while the unit was looking it up.      *)
RightInstruction ==
  reply.kind = "ready" /\ ~stores /\ ~remaps =>
    /\ reply.is = [page |-> Physical(reply.at.page), line |-> reply.at.line]
    /\ reply.text = text[reply.is.page]

(* A page fault is raised for a page the page table does not grant, even     *)
(* when it comes from a TLB entry loaded long before.                        *)
FaultIsReal ==
  reply.kind = "page_fault" /\ ~remaps => ptab[reply.is.page] \in {"none", "deny"}

(* A fetch that is neither stopped nor redirected is answered.               *)
Answered ==
  \A a \in Addrs, m \in Modes :
    <>[](read /\ addr = a /\ sv32 = m) => []<>(reply.kind \in {"ready", "page_fault"})

(* fence.i and sfence.vma, which wait for the unit, do not wait for ever.    *)
FenceEnds == invalidate ~> ~invalidate /\ ~tlb_flush
=============================================================================
