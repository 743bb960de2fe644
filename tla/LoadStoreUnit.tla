--------------------------- MODULE LoadStoreUnit ---------------------------
(***************************************************************************)
(* The load store unit (src/core/load_store_unit.nsl) with its TLB         *)
(* (tlb.inc), its page table walker (ptw.nsl) and the face of the data     *)
(* cache it turns to (cache.nsl), as used by the memory stage and by the   *)
(* instruction fetch unit, which walks the page table through it.  One     *)
(* step is one clock; a procedure that is called runs in the next one.     *)
(*                                                                         *)
(* Pages stand for virtual pages of one superpage, so the table has one    *)
(* entry at level 1 and one for each page at level 0.  A physical page is  *)
(* a group (the upper half of its number) and a page in it.  Data is left  *)
(* out: what counts is which accesses are made where, for which request.   *)
(***************************************************************************)
EXTENDS Naturals, FiniteSets, Sequences

CONSTANTS
  Pages, Groups,
  Ram,         \* physical pages in which there is memory
  Home,        \* the group of an address that is not translated
  Tables,      \* the page tables in use
  Modes,       \* the modes of operation in use
  TlbSize,
  InFlight     \* requests that are under way when the fetch stage dries up

Flags  == {"v", "r", "w", "x", "u", "a", "d"}
Frames == [hi : Groups, lo : Pages]
Ptes   == [flags : SUBSET Flags, to : Frames]
Levels == {0, 1}

\* "none", "root" and "data" name no page and no group.
ASSUME LoadStoreUnitAssumption ==
  /\ {"none", "root", "data"} \cap Pages = {} /\ "none" \notin Groups
  /\ Pages # {} /\ Ram \subseteq Frames /\ Home \in Groups
  /\ Tables # {} /\ Tables \subseteq [root : Ptes, leaf : [Pages -> Ptes]]
  /\ Modes # {} /\ Modes \subseteq [sv32 : BOOLEAN, user : BOOLEAN, sum : BOOLEAN, mxr : BOOLEAN]
  /\ TlbSize \in Nat \ {0} /\ InFlight \in Nat

VARIABLES
  st, arg,      \* procedure of the unit that is active, its arguments
  dtlb,
  reservation,
  walker,       \* procedure of the walker, its arguments
  dcache,       \* what the data cache is doing
  req,          \* what the memory stage asks
  fetch,        \* read_tlb: the page the fetch unit asks for
  mode, table,
  says,         \* outputs of the clock before
  remaps,       \* the table has changed since the last sfence.vma
  waited, moved,   \* the request is older than a clock; the mode changed meanwhile
  made,         \* accesses made for the request so far
  linked,       \* where the last lr was answered from, until the next sc
  ahead         \* requests that may still come while the fetch unit waits

unit   == <<st, arg, dtlb, reservation, walker, dcache>>
client == <<req, fetch, mode, table, remaps, waited, moved, made, linked, ahead>>
vars   == <<unit, client, says>>

Loads    == {"load", "lr"}
Writes   == {"store", "sc", "amo"}
Accesses == Loads \cup Writes
Flushes  == {"cache_flush", "tlb_flush"}

NoPage  == "none"
NoFrame == [hi |-> "none", lo |-> "none"]
NoReq   == [kind |-> "none", page |-> NoPage]
NoPte   == [flags |-> {}, to |-> NoFrame]
NoArg   == [op |-> "none", page |-> NoPage, frame |-> NoFrame]
Reqs    == [kind : Accesses, page : Pages] \cup [kind : Flushes, page : {NoPage}]

\* An address of the data bus: in a page of data, or an entry of the table, at
\* level 1 in a page satp names and at level 0 in the one the pointer names.
Place(what, f) == [what |-> what, frame |-> f]
Places   == [what : {"data"} \cup Pages, frame : Frames] \cup {Place("root", NoFrame)}
Missing(p) == p.what # "root" /\ p.frame \notin Ram         \* pma_empty

DcacheIdle == [op |-> "idle", at |-> Place("root", NoFrame)]
Walking(procedure, level, at, page, pte) ==
  [st |-> procedure, level |-> level, at |-> at, page |-> page, pte |-> pte]
WalkerIdle == Walking("idle", 0, Place("root", NoFrame), NoPage, NoPte)

Procedures == {"idle", "flush_cache", "flush_tlb", "cacheable_read", "cacheable_write",
               "page_table_walk", "amo_read", "amo_alu_op", "amo_writeback"}
Faults  == {"load_page_fault", "store_amo_page_fault", "load_access_fault", "store_amo_access_fault"}
Outputs == Faults \cup {"ready", "cache_flush_done", "tlb_flush_done",
                        "pte_ready", "tlb_page_fault", "tlb_access_fault"}

TypeOK ==
  /\ st \in Procedures
  /\ arg \in [op : {"load", "store", "fetch", "none"}, page : Pages \cup {NoPage}, frame : Frames \cup {NoFrame}]
  /\ dtlb \subseteq [page : Pages, pte : Ptes, level : Levels] /\ Cardinality(dtlb) <= TlbSize
  /\ reservation \in Frames \cup {NoFrame}
  /\ walker \in [st : {"idle", "walk", "check"}, level : Levels, at : Places,
                 page : Pages \cup {NoPage}, pte : Ptes \cup {NoPte}]
  /\ dcache \in [op : {"idle", "read", "write", "flush"}, at : Places]
  /\ req \in Reqs \cup {NoReq} /\ fetch \in Pages \cup {NoPage}
  /\ mode \in Modes /\ table \in Tables /\ says \subseteq Outputs
  /\ remaps \in BOOLEAN /\ waited \in BOOLEAN /\ moved \in BOOLEAN
  /\ made \in Seq([op : {"read", "write"}, frame : Frames]) /\ Len(made) <= 1
  /\ linked \in Frames \cup {NoFrame} /\ ahead \in 0..InFlight

Init ==
  /\ st = "idle" /\ arg = NoArg /\ dtlb = {} /\ reservation = NoFrame
  /\ walker = WalkerIdle /\ dcache = DcacheIdle
  /\ req = NoReq /\ fetch = NoPage
  /\ mode \in {m \in Modes : ~m.sv32} /\ table \in Tables
  /\ says = {} /\ remaps = FALSE /\ waited = FALSE /\ moved = FALSE
  /\ made = <<>> /\ linked = NoFrame /\ ahead = InFlight

-----------------------------------------------------------------------------
(* The data cache, as far as the unit sees it: it takes a request when it is *)
(* idle and answers it, whoever asks by then; where there is no memory it    *)
(* answers with a fault and takes nothing.                                    *)

Asked ==
       {[op |-> o, at |-> Place("data", arg.frame)] :
          o \in CASE st \in {"cacheable_read", "amo_read"}       -> {"read"}
                  [] st \in {"cacheable_write", "amo_writeback"} -> {"write"}
                  [] OTHER                                       -> {}}
  \cup (IF walker.st = "walk" THEN {[op |-> "read", at |-> walker.at]} ELSE {})

Flushing == st = "flush_cache" \/ (st = "idle" /\ req.kind = "cache_flush")

Taken(c) ==
  IF ~Missing(c.at) THEN [then |-> c, out |-> "none"]
  ELSE [then |-> dcache,
        out  |-> IF c.op = "read" THEN "load_access_fault" ELSE "store_amo_access_fault"]

Waits == [then |-> dcache, out |-> "none"]
Done  == [then |-> DcacheIdle, out |-> IF dcache.op = "flush" THEN "cache_flush_done" ELSE "ready"]

\* What it may do in a clock, with its answer.
Dcache ==
  IF dcache.op # "idle" THEN {Waits, Done}
  ELSE IF Flushing THEN {[then |-> [DcacheIdle EXCEPT !.op = "flush"], out |-> "none"]}
  ELSE IF Asked = {} THEN {Waits}
  ELSE {Taken(c) : c \in Asked}

-----------------------------------------------------------------------------
(* The page table walker.                                                    *)

\* The word the data cache reads for the walker.
Word == IF dcache.at.what = "root" THEN table.root ELSE table.leaf[dcache.at.what]

IsLeaf(pte, level) ==
  /\ "v" \in pte.flags
  /\ \/ level = 0
     \/ {"x", "w", "r"} \cap pte.flags # {} /\ ~("w" \in pte.flags /\ "r" \notin pte.flags)
IsPointer(pte, level) ==
  "v" \in pte.flags /\ level # 0 /\ {"x", "w", "r"} \cap pte.flags = {}

PteValid  == walker.st = "check" /\ IsLeaf(walker.pte, walker.level)
PageFault == walker.st = "check" /\ ~IsLeaf(walker.pte, walker.level)
                                 /\ ~IsPointer(walker.pte, walker.level)

Walker(out) ==
  \/ /\ walker.st = "idle"
     /\ walker' = IF st = "page_table_walk"
                  THEN Walking("walk", 1, Place("root", NoFrame), arg.page, NoPte)
                  ELSE walker
  \/ /\ walker.st = "walk"
     /\ \/ out = "ready" /\ walker' = [walker EXCEPT !.st = "check", !.pte = Word]
        \/ out # "ready" /\ UNCHANGED walker
  \/ /\ walker.st = "check"
     /\ walker' = IF IsPointer(walker.pte, walker.level)
                  THEN Walking("walk", walker.level - 1,
                               Place(walker.page, walker.pte.to), NoPage, NoPte)
                  ELSE WalkerIdle

-----------------------------------------------------------------------------
(* Translation.                                                              *)

\* A page that is in several entries is read as the mix of them.
Looked(page) ==
  LET hits == {[pte |-> e.pte, level |-> e.level] : e \in {h \in dtlb : h.page = page}} IN
  IF Cardinality(hits) <= 1 THEN hits
  ELSE {[pte |-> [flags |-> UNION {h.pte.flags : h \in hits}, to |-> f], level |-> l] :
          f \in Frames, l \in {h.level : h \in hits}}

UserBit(pte) == IF "u" \in pte.flags THEN mode.user \/ mode.sum ELSE ~mode.user

Grants(pte, kind) ==
  /\ "v" \in pte.flags /\ "a" \in pte.flags /\ UserBit(pte)
  /\ IF kind \in Loads THEN "r" \in pte.flags \/ (mode.mxr /\ "x" \in pte.flags)
                       ELSE {"r", "w", "d"} \subseteq pte.flags

Physical(e, page) ==
  IF e.level = 0 THEN e.pte.to ELSE [hi |-> e.pte.to.hi, lo |-> page]
Untranslated(page) == [hi |-> Home, lo |-> page]

-----------------------------------------------------------------------------
(* Procedures of the unit.  Each says what it puts on the outputs; a fault   *)
(* of the data cache or of the walker reaches them whatever is active.       *)

PtwOp(kind) == IF kind \in Loads THEN "load" ELSE "store"

\* Variant: a fault of a fetch is raised as one of a load, one of an AMO as it comes.
RaisedAsLoad(out) ==
       (IF out = "load_access_fault" THEN {out} ELSE {})
  \cup (IF out = "store_amo_access_fault" THEN {out} ELSE {})
  \cup (IF PageFault THEN {IF arg.op = "store" THEN "store_amo_page_fault" ELSE "load_page_fault"}
                     ELSE {})

Raised(out) ==
       (IF out = "load_access_fault"
        THEN {IF st = "page_table_walk" /\ arg.op = "fetch" THEN "tlb_access_fault"
              ELSE IF st \in {"amo_read", "amo_alu_op", "amo_writeback"} THEN "store_amo_access_fault"
              ELSE "load_access_fault"}
        ELSE {})
  \cup (IF out = "store_amo_access_fault" THEN {out} ELSE {})
  \cup (IF PageFault
        THEN {CASE arg.op = "fetch" -> "tlb_page_fault"
                [] arg.op = "store" -> "store_amo_page_fault"
                [] OTHER            -> "load_page_fault"}
        ELSE {})

Say(outputs, out) == says' = outputs \cup Raised(out)

Call(procedure, frame) == st' = procedure /\ arg' = [NoArg EXCEPT !.frame = frame]
Return == Call("idle", NoFrame)
Walk(op, page) ==
  st' = "page_table_walk" /\ arg' = [op |-> op, page |-> page, frame |-> NoFrame]

\* Variant: a store conditional leaves the reservation as it is.
StoreConditionalAgain(frame, out) ==
  /\ UNCHANGED reservation
  /\ \/ reservation = frame /\ Call("cacheable_write", frame) /\ Say({}, out)
     \/ reservation # frame /\ Return /\ Say({"ready"}, out)

StoreConditional(frame, out) ==
  /\ reservation' = NoFrame
  /\ \/ reservation = frame /\ Call("cacheable_write", frame) /\ Say({}, out)
     \/ reservation # frame /\ Return /\ Say({"ready"}, out)

Begin(kind, frame, out) ==
  \/ kind = "load" /\ Call("cacheable_read", frame) /\ UNCHANGED reservation /\ Say({}, out)
  \/ kind = "lr" /\ Call("cacheable_read", frame) /\ reservation' = frame /\ Say({}, out)
  \/ kind = "store" /\ Call("cacheable_write", frame) /\ UNCHANGED reservation /\ Say({}, out)
  \/ kind = "sc" /\ StoreConditional(frame, out)
  \/ kind = "amo" /\ Call("amo_read", frame) /\ UNCHANGED reservation /\ Say({}, out)

\* A denied access is reported and walked for all the same.
Access(kind, page, out) ==
  \/ ~mode.sv32 /\ Begin(kind, Untranslated(page), out)
  \/ /\ mode.sv32
     /\ \/ \E e \in Looked(page) :
             \/ Grants(e.pte, kind) /\ Begin(kind, Physical(e, page), out)
             \/ /\ ~Grants(e.pte, kind)
                /\ Walk(PtwOp(kind), page) /\ UNCHANGED reservation
                /\ Say({IF kind \in Loads THEN "load_page_fault" ELSE "store_amo_page_fault"}, out)
        \/ /\ Looked(page) = {}
           /\ Walk(PtwOp(kind), page) /\ UNCHANGED reservation /\ Say({}, out)

Idle(out) ==
  /\ st = "idle" /\ UNCHANGED dtlb
  /\ \/ /\ req.kind = "cache_flush"
        /\ Call("flush_cache", NoFrame) /\ UNCHANGED reservation /\ Say({}, out)
     \/ /\ req.kind = "tlb_flush"
        /\ Call("flush_tlb", NoFrame) /\ UNCHANGED reservation /\ Say({}, out)
     \/ req.kind \in Accesses /\ Access(req.kind, req.page, out)
     \/ /\ req = NoReq /\ fetch # NoPage /\ UNCHANGED reservation
        /\ \/ Looked(fetch) # {} /\ Return /\ Say({"pte_ready"}, out)
           \/ Looked(fetch) = {} /\ Walk("fetch", fetch) /\ Say({}, out)
     \/ /\ req = NoReq /\ fetch = NoPage
        /\ Return /\ UNCHANGED reservation /\ Say({}, out)

FlushCache(out) ==
  /\ st = "flush_cache" /\ UNCHANGED <<dtlb, reservation>>
  /\ \/ out = "cache_flush_done" /\ Return /\ Say({out}, out)
     \/ out # "cache_flush_done" /\ Call(st, NoFrame) /\ Say({}, out)

\* Variant: the flush is reported and the entries stay valid.
FlushTlbNot(out) ==
  /\ st = "flush_tlb" /\ UNCHANGED <<dtlb, reservation>>
  /\ Return /\ Say({"tlb_flush_done"}, out)

FlushTlb(out) ==
  /\ st = "flush_tlb" /\ UNCHANGED reservation
  /\ dtlb' = {} /\ Return /\ Say({"tlb_flush_done"}, out)

Cacheable(out) ==
  /\ st \in {"cacheable_read", "cacheable_write"} /\ UNCHANGED <<dtlb, reservation>>
  /\ \/ out = "ready" /\ Return /\ Say({"ready"}, out)
     \/ out \in Faults /\ Return /\ Say({}, out)
     \/ out = "none" /\ Call(st, arg.frame) /\ Say({}, out)

\* Variant: nothing is replaced when the TLB is full.
RefilledBeside(e) == {dtlb \cup {e}}

\* tlb_32 replaces the entry a free-running counter points at; an entry that is
\* there twice takes two places.
Refilled(e) ==
  (IF Cardinality(dtlb \cup {e}) <= TlbSize THEN {dtlb \cup {e}} ELSE {})
    \cup {(dtlb \ {o}) \cup {e} : o \in dtlb}

\* Variant: a walk that ends in a fault is begun again.
PageTableWalkStays(out) ==
  /\ st = "page_table_walk" /\ UNCHANGED reservation /\ Say({}, out)
  /\ \/ /\ PteValid
        /\ dtlb' \in Refilled([page |-> arg.page, pte |-> walker.pte, level |-> walker.level])
        /\ Return
     \/ /\ ~PteValid
        /\ UNCHANGED <<st, arg, dtlb>>

PageTableWalk(out) ==
  /\ st = "page_table_walk" /\ UNCHANGED reservation /\ Say({}, out)
  /\ \/ /\ PteValid
        /\ dtlb' \in Refilled([page |-> arg.page, pte |-> walker.pte, level |-> walker.level])
        /\ Return
     \/ PageFault /\ Return /\ UNCHANGED dtlb
     \/ out = "load_access_fault" /\ Return /\ UNCHANGED dtlb
     \/ ~PteValid /\ ~PageFault /\ out # "load_access_fault" /\ UNCHANGED <<st, arg, dtlb>>

AmoOpExe(out) ==
  /\ UNCHANGED <<dtlb, reservation>>
  /\ \/ /\ st = "amo_read"
        /\ \/ out = "ready" /\ Call("amo_alu_op", arg.frame) /\ Say({}, out)
           \/ out \in Faults /\ Return /\ Say({}, out)
           \/ out = "none" /\ Call(st, arg.frame) /\ Say({}, out)
     \/ st = "amo_alu_op" /\ Call("amo_writeback", arg.frame) /\ Say({}, out)
     \/ /\ st = "amo_writeback"
        /\ \/ out = "ready" /\ Return /\ Say({"ready"}, out)
           \/ out \in Faults /\ Return /\ Say({}, out)
           \/ out = "none" /\ Call(st, arg.frame) /\ Say({}, out)

Unit ==
  \E d \in Dcache : LET out == d.out IN
    /\ dcache' = d.then /\ Walker(out)
    /\ \/ Idle(out) \/ FlushCache(out) \/ FlushTlb(out) \/ Cacheable(out)
       \/ PageTableWalk(out) \/ AmoOpExe(out)

-----------------------------------------------------------------------------
(* The memory stage, the fetch unit and rv32x_core.                          *)

Ended == says' \cap (Faults \cup {"ready", "cache_flush_done", "tlb_flush_done"}) # {}
Stays == req # NoReq /\ ~Ended

\* A request is held until it is answered; a fault takes it out with a trap.
\* While the fetch unit waits, no more come than are in decode and execute.
MemoryStage ==
  \/ Stays /\ UNCHANGED <<req, ahead>>
  \/ ~Stays /\ req' = NoReq /\ UNCHANGED ahead
  \/ ~Stays /\ says' \cap Faults = {} /\ req' \in Reqs
     /\ ahead' = (IF fetch = NoPage THEN InFlight ELSE ahead - 1) /\ ahead' >= 0

\* Fetches may be translated when data is not, and the other way round (mstatus.mprv).
FetchUnit ==
  \/ /\ fetch = NoPage
     /\ fetch' \in {NoPage} \cup Pages
  \/ /\ fetch # NoPage
     /\ fetch' = IF says' \cap {"pte_ready", "tlb_page_fault"} # {} THEN NoPage ELSE fetch

\* Between requests traps, returns and CSR writes change mode, satp and the
\* permissions.  A younger ecall or xret does not wait for a request in the
\* memory stage and changes the mode under it.  What is stored may be the table.
Status ==
  \/ UNCHANGED <<mode, table>>
  \/ req = NoReq /\ req' = NoReq /\ mode' \in Modes /\ UNCHANGED table
  \/ req = NoReq /\ req' = NoReq /\ table' \in Tables /\ UNCHANGED mode
  \/ Stays /\ waited /\ mode' \in Modes /\ UNCHANGED table
  \/ dcache.op = "write" /\ dcache'.op = "idle" /\ table' \in Tables /\ UNCHANGED mode

Completed ==
  IF dcache.op \in {"read", "write"} /\ dcache'.op = "idle" /\ dcache.at.what = "data"
  THEN <<[op |-> dcache.op, frame |-> dcache.at.frame]>> ELSE <<>>

\* What the properties remember of the past.
History ==
  /\ remaps' = IF "tlb_flush_done" \in says' THEN FALSE ELSE remaps \/ table' # table
  /\ waited' = Stays
  /\ moved' = (Stays /\ (moved \/ mode' # mode))
  /\ made' = IF Stays THEN made \o Completed ELSE <<>>
  /\ linked' =
       CASE req.kind = "lr" /\ "ready" \in says' /\ Completed # <<>> -> dcache.at.frame
         [] req.kind = "sc" /\ "ready" \in says'                     -> NoFrame
         [] req.kind \in {"lr", "sc"}
              /\ says' \cap {"load_access_fault", "store_amo_access_fault"} # {} -> NoFrame
         [] OTHER -> linked

\* A walk in a table outside memory is left by the unit and not by the walker,
\* which from then on asks the data cache for that address in every clock.  What
\* this does to later requests is beyond this module.
Abandoned == walker.st # "idle" /\ st # "page_table_walk"

Clock == ~Abandoned /\ Unit /\ MemoryStage /\ FetchUnit /\ Status /\ History
Lost  == Abandoned /\ UNCHANGED vars
Next  == Clock \/ Lost

Spec == Init /\ [][Next]_vars

\* The clock runs and the memory behind the data cache answers.
CacheAnswers == dcache.op # "idle" /\ dcache' = DcacheIdle /\ Clock
FairSpec == Spec /\ WF_vars(Next) /\ WF_vars(CacheAnswers)

-----------------------------------------------------------------------------
(* Properties.                                                               *)

\* What the table says of a page: the entry that maps it, if there is one.
Mapping(page) ==
  IF "v" \notin table.root.flags THEN {}
  ELSE IF {"r", "w", "x"} \cap table.root.flags = {}
       THEN {[pte |-> p, level |-> 0] :
               p \in {q \in {table.leaf[page]} : "v" \in q.flags /\ table.root.to \in Ram}}
       ELSE {[pte |-> p, level |-> 1] :
               p \in {q \in {table.root} : "w" \in q.flags => "r" \in q.flags}}

TableMissing == {"v", "r", "w", "x"} \cap table.root.flags = {"v"} /\ table.root.to \notin Ram

Needed(kind) == {"v", "a"} \cup (IF kind \in Loads THEN {} ELSE {"r", "w", "d"})

Allowed(kind, pte) ==
  /\ Needed(kind) \subseteq pte.flags
  /\ "r" \in pte.flags \/ (mode.mxr /\ "x" \in pte.flags)
  /\ ("u" \in pte.flags) = mode.user \/ ("u" \in pte.flags /\ mode.sum)

\* Where the page of the request is, if the request is allowed.
Target ==
  IF ~mode.sv32 THEN {Untranslated(req.page)}
  ELSE {Physical(m, req.page) : m \in {n \in Mapping(req.page) : Allowed(req.kind, n.pte)}}

Settled == ~moved /\ (mode.sv32 => ~remaps)

AccessesAt(kind, frame) ==
  LET read == [op |-> "read", frame |-> frame]  write == [op |-> "write", frame |-> frame] IN
  CASE kind \in Loads   -> <<read>>
    [] kind = "store"   -> <<write>>
    [] kind = "amo"     -> <<read, write>>
    [] kind = "sc"      -> IF linked = frame THEN <<write>> ELSE <<>>

(* A request that is answered has made exactly the accesses it asks for, at  *)
(* the place where the table, as it stood at the last sfence.vma, puts its   *)
(* page, and is allowed to, whatever walks, faults and fetches the unit was  *)
(* busy with meanwhile; a store conditional stores just when the last        *)
(* answered lr was for the same place and no sc came between.                *)
AnswersRight ==
  [][req.kind \in Accesses /\ "ready" \in says' /\ Settled =>
       \E frame \in Target : made \o Completed = AccessesAt(req.kind, frame)]_vars

(* A page fault is raised for a request (of the memory stage or of the fetch *)
(* unit) that is there, of that kind, and that the table denies; an access   *)
(* fault where there is no memory; and the fetch unit gets the entry of the  *)
(* page it asks for.                                                         *)
FaultsReal ==
  [][Settled /\ ~remaps =>
       /\ "load_page_fault" \in says' => req.kind \in Loads /\ Target = {}
       /\ "store_amo_page_fault" \in says' => req.kind \in Writes /\ Target = {}
       /\ "store_amo_access_fault" \in says' =>
            req.kind \in Writes /\ \E frame \in Target : frame \notin Ram
       /\ "load_access_fault" \in says' =>
            TableMissing \/ (req.kind \in Loads /\ \E frame \in Target : frame \notin Ram)
       /\ "pte_ready" \in says' => Looked(fetch) = Mapping(fetch)
       /\ "tlb_page_fault" \in says' => fetch # NoPage /\ Mapping(fetch) = {}
       /\ "tlb_access_fault" \in says' => TableMissing]_vars

(* The memory stage and the fetch unit, which share the unit, are both       *)
(* answered, as long as no walk was abandoned in a table outside memory.     *)
Served ==
  /\ []<>(~waited \/ Abandoned)
  /\ []<>(fetch = NoPage \/ Abandoned)
=============================================================================
