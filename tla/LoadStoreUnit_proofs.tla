------------------------ MODULE LoadStoreUnit_proofs ------------------------
(***************************************************************************)
(* The load store unit, for any pages, page tables, memory, modes of       *)
(* operation and size of the TLB, up to the first walk that is abandoned.  *)
(***************************************************************************)
EXTENDS LoadStoreUnit, FiniteSetTheorems, SequenceTheorems, TLAPS

Reading   == {"cacheable_read", "amo_read"}
Writing   == {"cacheable_write", "amo_writeback"}
DataProcs == Reading \cup Writing \cup {"amo_alu_op"}

\* The arguments a procedure was called with.
ArgOK ==
  /\ st \in DataProcs => arg.frame \in Frames
  /\ st = "page_table_walk" => arg.page \in Pages /\ arg.op \in {"load", "store", "fetch"}

\* The data cache does what the active procedure asks for.
BusOK ==
  /\ dcache.op \in {"read", "write"} => dcache \in Asked /\ ~Missing(dcache.at)
  /\ dcache.op = "flush" => st = "flush_cache"

\* The walker is at the page it was called for.
WalkerOK ==
  walker.st # "idle" =>
    /\ \/ walker.level = 1 /\ walker.at = Place("root", NoFrame) /\ walker.page = arg.page
       \/ walker.level = 0 /\ walker.at.what = arg.page
    /\ walker.st = "check" => walker.pte \in Ptes /\ ~Missing(walker.at)

\* The request stays while the unit is at it, and has made the accesses its
\* procedures stand for.
HeldOK ==
  /\ st = "cacheable_read" => req.kind \in Loads
  /\ st = "cacheable_write" => req.kind \in {"store", "sc"}
  /\ st \in {"amo_read", "amo_alu_op", "amo_writeback"} => req.kind = "amo"
  /\ st = "flush_cache" => req.kind = "cache_flush"
  /\ st = "flush_tlb" => req.kind = "tlb_flush"
  /\ made = IF st \in {"amo_alu_op", "amo_writeback"}
            THEN <<[op |-> "read", frame |-> arg.frame]>> ELSE <<>>

\* The reservation is where the last answered lr was; one that was not answered
\* is where no store conditional is answered either.
LinkedOK ==
  IF st = "cacheable_read" /\ req.kind = "lr" THEN reservation = arg.frame
  ELSE IF st = "cacheable_write" /\ req.kind = "sc"
  THEN reservation = NoFrame /\ (linked = arg.frame \/ arg.frame \notin Ram)
  ELSE linked = reservation \/ (linked = NoFrame /\ reservation \notin Ram)

\* Since the last sfence.vma the TLB and the walker hold what the table does.
TlbOK == ~remaps => \A e \in dtlb : [pte |-> e.pte, level |-> e.level] \in Mapping(e.page)
WalkOK ==
  walker.st # "idle" /\ ~remaps =>
    /\ walker.level = 0 => IsPointer(table.root, 1) /\ walker.at.frame = table.root.to
    /\ walker.st = "check" =>
         walker.pte = IF walker.level = 1 THEN table.root ELSE table.leaf[arg.page]

\* The access goes where the request is allowed to go.
TargetOK == st \in DataProcs /\ Settled => arg.frame \in Target

\* A walk is for the fetch unit, or for the request that is there, or it
\* follows a denied access and finds its page.
PurposeOK ==
  st = "page_table_walk" =>
    /\ arg.op = "fetch" => fetch = arg.page
    /\ arg.op # "fetch" /\ ~remaps /\ ~moved =>
         \/ /\ req.kind \in Accesses /\ req.page = arg.page
            /\ PtwOp(req.kind) = arg.op /\ mode.sv32
         \/ Mapping(arg.page) # {}

Sound == ArgOK /\ BusOK /\ WalkerOK /\ HeldOK /\ LinkedOK
MovedOK == moved => req # NoReq
Faithful == TlbOK /\ WalkOK /\ TargetOK /\ PurposeOK /\ MovedOK

-----------------------------------------------------------------------------
(* Frames, entries and mappings.                                             *)

Entries == [pte : Ptes, level : Levels]

LEMMA Names ==
  /\ "none" \notin Pages /\ "root" \notin Pages /\ "data" \notin Pages
  /\ NoFrame \notin Frames /\ NoFrame \notin Ram /\ Ram \subseteq Frames
<1> QED BY LoadStoreUnitAssumption DEF NoFrame, Frames

LEMMA LookedType ==
  ASSUME TypeOK, NEW page
  PROVE  /\ Looked(page) \subseteq Entries
         /\ Looked(page) # {} => \E e \in dtlb : e.page = page
<1> DEFINE hits == {[pte |-> e.pte, level |-> e.level] : e \in {h \in dtlb : h.page = page}}
<1>1. hits \subseteq Entries
  BY DEF TypeOK, Entries
<1>2. ASSUME NEW f \in Frames, NEW l \in {h.level : h \in hits}
      PROVE  [pte |-> [flags |-> UNION {h.pte.flags : h \in hits}, to |-> f], level |-> l] \in Entries
  <2>1. UNION {h.pte.flags : h \in hits} \in SUBSET Flags
    BY <1>1 DEF Entries, Ptes
  <2>2. l \in Levels
    BY <1>1, <1>2 DEF Entries
  <2> HIDE DEF hits
  <2> QED BY <2>1, <2>2, <1>2 DEF Entries, Ptes
<1>3. Looked(page) \subseteq Entries
  BY <1>1, <1>2 DEF Looked
<1>4. hits = {} => Looked(page) = {}
  <2> SUFFICES ASSUME hits = {} PROVE Looked(page) = {}
    OBVIOUS
  <2>1. CASE Cardinality(hits) <= 1
    BY <2>1 DEF Looked
  <2>2. CASE ~(Cardinality(hits) <= 1)
    <3>1. {h.level : h \in hits} = {}
      OBVIOUS
    <3> QED BY <2>2, <3>1 DEF Looked
  <2> QED BY <2>1, <2>2
<1> QED BY <1>3, <1>4

LEMMA PhysicalType ==
  /\ \A e \in Entries, page \in Pages : Physical(e, page) \in Frames
  /\ \A page \in Pages : Untranslated(page) \in Frames
<1> QED BY LoadStoreUnitAssumption DEF Physical, Untranslated, Entries, Ptes, Frames

\* The entry of the table that maps a page, as a disjunction.
LEMMA MappingIs ==
  ASSUME TypeOK, NEW page \in Pages
  PROVE  \A m : m \in Mapping(page) <=>
           \/ /\ IsPointer(table.root, 1) /\ table.root.to \in Ram
              /\ "v" \in table.leaf[page].flags
              /\ m = [pte |-> table.leaf[page], level |-> 0]
           \/ /\ IsLeaf(table.root, 1)
              /\ m = [pte |-> table.root, level |-> 1]
<1>1. CASE "v" \notin table.root.flags
  BY <1>1 DEF Mapping, IsPointer, IsLeaf
<1>2. CASE "v" \in table.root.flags /\ {"r", "w", "x"} \cap table.root.flags = {}
  BY <1>2 DEF Mapping, IsPointer, IsLeaf
<1>3. CASE "v" \in table.root.flags /\ {"r", "w", "x"} \cap table.root.flags # {}
  BY <1>3 DEF Mapping, IsPointer, IsLeaf
<1> QED BY <1>1, <1>2, <1>3

-----------------------------------------------------------------------------
(* What the data cache may do in a clock, by what the unit is doing.         *)

Request(op) == [op |-> op, at |-> Place("data", arg.frame)]
WalkerRequest == [op |-> "read", at |-> walker.at]

\* It waits, takes the request c, ends one, or refuses c.
Takes(c) == dcache.op = "idle" /\ dcache' = c /\ ~Missing(c.at)
Ends     == dcache.op # "idle" /\ dcache' = DcacheIdle
Refuses(c) == dcache.op = "idle" /\ dcache' = dcache /\ Missing(c.at)

Outcome(out) ==
  \/ out = "none" /\ dcache' = dcache
  \/ out = "none" /\ dcache.op = "idle" /\ Flushing /\ dcache' = [DcacheIdle EXCEPT !.op = "flush"]
  \/ out = "none" /\ \E c \in Asked : Takes(c)
  \/ Ends /\ out = (IF dcache.op = "flush" THEN "cache_flush_done" ELSE "ready")
  \/ \E c \in Asked : /\ Refuses(c)
                      /\ out = IF c.op = "read" THEN "load_access_fault" ELSE "store_amo_access_fault"

LEMMA UnitIs ==
  ASSUME Unit
  PROVE  \E out : /\ Outcome(out) /\ Walker(out)
                  /\ \/ Idle(out) \/ FlushCache(out) \/ FlushTlb(out) \/ Cacheable(out)
                     \/ PageTableWalk(out) \/ AmoOpExe(out)
<1>1. PICK d \in Dcache :
        /\ dcache' = d.then /\ Walker(d.out)
        /\ \/ Idle(d.out) \/ FlushCache(d.out) \/ FlushTlb(d.out) \/ Cacheable(d.out)
           \/ PageTableWalk(d.out) \/ AmoOpExe(d.out)
  BY DEF Unit
<1>2. Outcome(d.out)
  <2>1. CASE dcache.op # "idle"
    BY <1>1, <2>1 DEF Dcache, Outcome, Waits, Done, Ends
  <2>2. CASE dcache.op = "idle" /\ Flushing
    BY <1>1, <2>2 DEF Dcache, Outcome
  <2>3. CASE dcache.op = "idle" /\ ~Flushing /\ Asked = {}
    BY <1>1, <2>3 DEF Dcache, Outcome, Waits
  <2>4. CASE dcache.op = "idle" /\ ~Flushing /\ Asked # {}
    <3>1. PICK c \in Asked : d = Taken(c)
      BY <1>1, <2>4 DEF Dcache
    <3>2. CASE ~Missing(c.at)
      BY <1>1, <2>4, <3>1, <3>2 DEF Taken, Outcome, Takes
    <3>3. CASE Missing(c.at)
      BY <1>1, <2>4, <3>1, <3>3 DEF Taken, Outcome, Refuses
    <3> QED BY <3>2, <3>3
  <2> QED BY <2>1, <2>2, <2>3, <2>4
<1> QED BY <1>1, <1>2

\* One of the unit and the walker asks, at most.
LEMMA AskedIs ==
  ASSUME TypeOK, ~Abandoned
  PROVE  /\ st \in Reading => Asked = {Request("read")}
         /\ st \in Writing => Asked = {Request("write")}
         /\ st = "page_table_walk" =>
              Asked = IF walker.st = "walk" THEN {WalkerRequest} ELSE {}
         /\ st \notin Reading \cup Writing \cup {"page_table_walk"} => Asked = {}
<1> USE DEF Reading, Writing, Request, WalkerRequest, Abandoned, Asked
<1>1. CASE st \in Reading
  BY <1>1
<1>2. CASE st \in Writing
  BY <1>2
<1>3. CASE st \notin Reading \cup Writing
  BY <1>3
<1> QED BY <1>1, <1>2, <1>3

LEMMA BusyWith ==
  ASSUME TypeOK, ArgOK, BusOK, WalkerOK, ~Abandoned
  PROVE  /\ st \in Reading => dcache.op = "idle" \/ (dcache = Request("read") /\ arg.frame \in Ram)
         /\ st \in Writing => dcache.op = "idle" \/ (dcache = Request("write") /\ arg.frame \in Ram)
         /\ st = "page_table_walk" =>
              \/ dcache.op = "idle"
              \/ walker.st = "walk" /\ dcache = WalkerRequest /\ ~Missing(walker.at)
         /\ st = "flush_cache" => dcache.op \in {"idle", "flush"}
         /\ st \in {"idle", "flush_tlb", "amo_alu_op"} => dcache.op = "idle"
<1>1. dcache.op \in {"idle", "read", "write", "flush"}
  BY DEF TypeOK
<1>2. st \in Reading => dcache.op = "idle" \/ (dcache = Request("read") /\ arg.frame \in Ram)
  BY <1>1, AskedIs DEF BusOK, Reading, Request, Missing, Place
<1>3. st \in Writing => dcache.op = "idle" \/ (dcache = Request("write") /\ arg.frame \in Ram)
  BY <1>1, AskedIs DEF BusOK, Writing, Request, Missing, Place
<1>4. st = "page_table_walk" =>
        \/ dcache.op = "idle"
        \/ walker.st = "walk" /\ dcache = WalkerRequest /\ ~Missing(walker.at)
  BY <1>1, AskedIs DEF BusOK, WalkerRequest
<1>5. st = "flush_cache" => dcache.op \in {"idle", "flush"}
  BY <1>1, AskedIs DEF BusOK, Reading, Writing
<1>6. st \in {"idle", "flush_tlb", "amo_alu_op"} => dcache.op = "idle"
  BY <1>1, AskedIs DEF BusOK, Reading, Writing
<1> QED BY <1>2, <1>3, <1>4, <1>5, <1>6

\* Waits for the unit: nothing is answered and the request goes on.
Busy(out, c) == out = "none" /\ (dcache' = dcache \/ (dcache' = c /\ ~Missing(c.at)))

LEMMA Outcomes ==
  ASSUME TypeOK, ArgOK, BusOK, WalkerOK, ~Abandoned, NEW out, Outcome(out)
  PROVE  /\ st \in Reading =>
              \/ Busy(out, Request("read"))
              \/ out = "ready" /\ dcache = Request("read") /\ dcache' = DcacheIdle /\ arg.frame \in Ram
              \/ out = "load_access_fault" /\ dcache.op = "idle" /\ dcache' = dcache /\ arg.frame \notin Ram
         /\ st \in Writing =>
              \/ Busy(out, Request("write"))
              \/ out = "ready" /\ dcache = Request("write") /\ dcache' = DcacheIdle /\ arg.frame \in Ram
              \/ out = "store_amo_access_fault" /\ dcache.op = "idle" /\ dcache' = dcache /\ arg.frame \notin Ram
         /\ st = "page_table_walk" =>
              \/ out = "none" /\ dcache' = dcache
              \/ Busy(out, WalkerRequest) /\ walker.st = "walk"
              \/ out = "ready" /\ walker.st = "walk" /\ dcache = WalkerRequest
                 /\ ~Missing(walker.at) /\ dcache' = DcacheIdle
              \/ out = "load_access_fault" /\ walker.st = "walk" /\ Missing(walker.at)
                 /\ dcache.op = "idle" /\ dcache' = dcache
         /\ st = "flush_cache" =>
              \/ out = "none" /\ dcache'.op \in {"idle", "flush"}
              \/ out = "cache_flush_done" /\ dcache' = DcacheIdle
         /\ st \in {"flush_tlb", "amo_alu_op"} => out = "none" /\ dcache' = dcache /\ dcache.op = "idle"
         /\ st = "idle" => /\ out = "none" /\ dcache.op = "idle"
                           /\ \/ dcache' = dcache
                              \/ req.kind = "cache_flush" /\ dcache' = [DcacheIdle EXCEPT !.op = "flush"]
<1> USE AskedIs, BusyWith DEF Outcome, Busy, Ends, Takes, Refuses
<1>1. ASSUME st \in Reading
      PROVE  \/ Busy(out, Request("read"))
             \/ out = "ready" /\ dcache = Request("read") /\ dcache' = DcacheIdle /\ arg.frame \in Ram
             \/ out = "load_access_fault" /\ dcache.op = "idle" /\ dcache' = dcache /\ arg.frame \notin Ram
  <2>1. Asked = {Request("read")} /\ (dcache.op = "idle" \/ (dcache = Request("read") /\ arg.frame \in Ram))
    BY <1>1
  <2>2. /\ Missing(Request("read").at) <=> arg.frame \notin Ram
        /\ Request("read").op = "read"
    BY DEF Request, Missing, Place
  <2>3. ~Flushing
    BY <1>1 DEF Reading, Flushing
  <2> HIDE AskedIs, BusyWith
  <2> QED BY <2>1, <2>2, <2>3
<1>2. ASSUME st \in Writing
      PROVE  \/ Busy(out, Request("write"))
             \/ out = "ready" /\ dcache = Request("write") /\ dcache' = DcacheIdle /\ arg.frame \in Ram
             \/ out = "store_amo_access_fault" /\ dcache.op = "idle" /\ dcache' = dcache /\ arg.frame \notin Ram
  <2>1. Asked = {Request("write")} /\ (dcache.op = "idle" \/ (dcache = Request("write") /\ arg.frame \in Ram))
    BY <1>2
  <2>2. /\ Missing(Request("write").at) <=> arg.frame \notin Ram
        /\ Request("write").op = "write"
    BY DEF Request, Missing, Place
  <2>3. ~Flushing
    BY <1>2 DEF Writing, Flushing
  <2> HIDE AskedIs, BusyWith
  <2> QED BY <2>1, <2>2, <2>3
<1>3. ASSUME st = "page_table_walk"
      PROVE  \/ out = "none" /\ dcache' = dcache
             \/ Busy(out, WalkerRequest) /\ walker.st = "walk"
             \/ out = "ready" /\ walker.st = "walk" /\ dcache = WalkerRequest
                /\ ~Missing(walker.at) /\ dcache' = DcacheIdle
             \/ out = "load_access_fault" /\ walker.st = "walk" /\ Missing(walker.at)
                /\ dcache.op = "idle" /\ dcache' = dcache
  BY <1>3 DEF Flushing, WalkerRequest
<1>4. ASSUME st = "flush_cache"
      PROVE  \/ out = "none" /\ dcache'.op \in {"idle", "flush"}
             \/ out = "cache_flush_done" /\ dcache' = DcacheIdle
  BY <1>4 DEF Reading, Writing, DcacheIdle
<1>5. ASSUME st \in {"flush_tlb", "amo_alu_op"}
      PROVE  out = "none" /\ dcache' = dcache /\ dcache.op = "idle"
  BY <1>5 DEF Reading, Writing, Flushing
<1>6. ASSUME st = "idle"
      PROVE  /\ out = "none" /\ dcache.op = "idle"
             /\ \/ dcache' = dcache
                \/ req.kind = "cache_flush" /\ dcache' = [DcacheIdle EXCEPT !.op = "flush"]
  BY <1>6 DEF Reading, Writing, Flushing
<1> QED BY <1>1, <1>2, <1>3, <1>4, <1>5, <1>6

-----------------------------------------------------------------------------
(* What a clock does, by the procedure that is active.                       *)

At(op) == <<[op |-> op, frame |-> arg.frame]>>

\* The active procedure goes on or calls the next one, with the same request.
GoesOn(procedure, accesses) ==
  /\ st' = procedure /\ arg'.frame = arg.frame
  /\ says' = {} /\ Completed = accesses /\ req' = req

\* It ends with an answer.
Answers(answer, accesses) == st' = "idle" /\ says' = {answer} /\ Completed = accesses

LEMMA StaysIs ==
  ASSUME Clock, req # NoReq, says' = {}
  PROVE  Stays /\ req' = req
<1> QED BY DEF Clock, MemoryStage, Stays, Ended

LEMMA AnswerEnds ==
  ASSUME NEW a \in Faults \cup {"ready", "cache_flush_done", "tlb_flush_done"}, a \in says'
  PROVE  ~Stays
<1> QED BY DEF Stays, Ended

LEMMA WalkerRests ==
  ASSUME TypeOK, ~Abandoned, st # "page_table_walk", NEW out, Walker(out)
  PROVE  walker.st = "idle" /\ walker' = walker /\ ~PteValid /\ ~PageFault
<1> QED BY DEF Abandoned, Walker, PteValid, PageFault

LEMMA DataEffect ==
  ASSUME TypeOK, Sound, ~Abandoned, Clock, st \in DataProcs
  PROVE  /\ UNCHANGED <<dtlb, reservation, walker>> /\ walker.st = "idle"
         /\ \/ st # "amo_alu_op" /\ GoesOn(st, <<>>)
            \/ st = "amo_read" /\ arg.frame \in Ram /\ GoesOn("amo_alu_op", At("read"))
            \/ st = "amo_alu_op" /\ GoesOn("amo_writeback", <<>>)
            \/ st = "cacheable_read" /\ arg.frame \in Ram /\ Answers("ready", At("read"))
            \/ st \in Writing /\ arg.frame \in Ram /\ Answers("ready", At("write"))
            \/ st = "cacheable_read" /\ arg.frame \notin Ram /\ Answers("load_access_fault", <<>>)
            \/ /\ st \in Writing \cup {"amo_read"} /\ arg.frame \notin Ram
               /\ Answers("store_amo_access_fault", <<>>)
<1>1. PICK out : /\ Outcome(out) /\ Walker(out)
                 /\ \/ Idle(out) \/ FlushCache(out) \/ FlushTlb(out) \/ Cacheable(out)
                    \/ PageTableWalk(out) \/ AmoOpExe(out)
  BY UnitIs DEF Clock
<1>2. Cacheable(out) \/ AmoOpExe(out)
  BY <1>1 DEF DataProcs, Reading, Writing, Idle, FlushCache, FlushTlb, PageTableWalk
<1>3. walker.st = "idle" /\ walker' = walker /\ ~PageFault
  BY <1>1, WalkerRests DEF DataProcs, Reading, Writing
<1>4. UNCHANGED <<dtlb, reservation>>
  BY <1>2 DEF Cacheable, AmoOpExe
<1>5. req # NoReq
  BY DEF Sound, HeldOK, DataProcs, Reading, Writing, NoReq, Loads
<1>6. says' = {} => req' = req
  BY <1>5, StaysIs
<1>7. /\ st \in Reading =>
           \/ out = "none" /\ Completed = <<>>
           \/ out = "ready" /\ Completed = At("read") /\ arg.frame \in Ram
           \/ out = "load_access_fault" /\ Completed = <<>> /\ arg.frame \notin Ram
      /\ st \in Writing =>
           \/ out = "none" /\ Completed = <<>>
           \/ out = "ready" /\ Completed = At("write") /\ arg.frame \in Ram
           \/ out = "store_amo_access_fault" /\ Completed = <<>> /\ arg.frame \notin Ram
      /\ st = "amo_alu_op" => out = "none" /\ Completed = <<>>
  <2>1. ASSUME dcache' = dcache \/ dcache.op = "idle"
        PROVE  Completed = <<>>
    BY <2>1 DEF Completed
  <2>2. ASSUME NEW op \in {"read", "write"}, dcache = Request(op), dcache' = DcacheIdle
        PROVE  Completed = At(op)
    BY <2>2 DEF Completed, Request, At, Place, DcacheIdle
  <2>3. /\ st \in Reading =>
             \/ Busy(out, Request("read"))
             \/ out = "ready" /\ dcache = Request("read") /\ dcache' = DcacheIdle /\ arg.frame \in Ram
             \/ out = "load_access_fault" /\ dcache.op = "idle" /\ dcache' = dcache /\ arg.frame \notin Ram
        /\ st \in Writing =>
             \/ Busy(out, Request("write"))
             \/ out = "ready" /\ dcache = Request("write") /\ dcache' = DcacheIdle /\ arg.frame \in Ram
             \/ out = "store_amo_access_fault" /\ dcache.op = "idle" /\ dcache' = dcache /\ arg.frame \notin Ram
        /\ st = "amo_alu_op" => out = "none" /\ dcache' = dcache
    BY <1>1, Outcomes DEF Sound
  <2>4. ASSUME NEW op \in {"read", "write"}, Busy(out, Request(op))
        PROVE  out = "none" /\ Completed = <<>>
    BY <2>1, <2>4 DEF Busy, Completed, Request
  <2> QED BY <2>1, <2>2, <2>3, <2>4
<1>8. /\ st = "cacheable_read" =>
           \/ out = "none" /\ Call(st, arg.frame) /\ says' = {}
           \/ out = "ready" /\ Return /\ says' = {"ready"}
           \/ out = "load_access_fault" /\ Return /\ says' = {"load_access_fault"}
      /\ st = "cacheable_write" =>
           \/ out = "none" /\ Call(st, arg.frame) /\ says' = {}
           \/ out = "ready" /\ Return /\ says' = {"ready"}
           \/ out = "store_amo_access_fault" /\ Return /\ says' = {"store_amo_access_fault"}
      /\ st = "amo_read" =>
           \/ out = "none" /\ Call(st, arg.frame) /\ says' = {}
           \/ out = "ready" /\ Call("amo_alu_op", arg.frame) /\ says' = {}
           \/ out = "load_access_fault" /\ Return /\ says' = {"store_amo_access_fault"}
      /\ st = "amo_alu_op" => Call("amo_writeback", arg.frame) /\ says' = {}
      /\ st = "amo_writeback" =>
           \/ out = "none" /\ Call(st, arg.frame) /\ says' = {}
           \/ out = "ready" /\ Return /\ says' = {"ready"}
           \/ out = "store_amo_access_fault" /\ Return /\ says' = {"store_amo_access_fault"}
  <2> USE <1>2, <1>3, <1>7 DEF Say, Raised, Faults, Reading, Writing
  <2>1. CASE st = "cacheable_read" BY <2>1 DEF Cacheable, AmoOpExe
  <2>2. CASE st = "cacheable_write" BY <2>2 DEF Cacheable, AmoOpExe
  <2>3. CASE st = "amo_read" BY <2>3 DEF Cacheable, AmoOpExe
  <2>4. CASE st = "amo_alu_op" BY <2>4 DEF Cacheable, AmoOpExe
  <2>5. CASE st = "amo_writeback" BY <2>5 DEF Cacheable, AmoOpExe
  <2> QED BY <2>1, <2>2, <2>3, <2>4, <2>5
<1> USE DEF GoesOn, Answers, Call, Return, NoArg
<1>9. CASE st = "cacheable_read" BY <1>3, <1>4, <1>6, <1>7, <1>8, <1>9 DEF Reading
<1>10. CASE st = "cacheable_write" BY <1>3, <1>4, <1>6, <1>7, <1>8, <1>10 DEF Writing
<1>11. CASE st = "amo_read" BY <1>3, <1>4, <1>6, <1>7, <1>8, <1>11 DEF Reading
<1>12. CASE st = "amo_alu_op" BY <1>3, <1>4, <1>6, <1>7, <1>8, <1>12
<1>13. CASE st = "amo_writeback" BY <1>3, <1>4, <1>6, <1>7, <1>8, <1>13 DEF Writing
<1> QED BY <1>9, <1>10, <1>11, <1>12, <1>13 DEF DataProcs, Reading, Writing

\* The walk goes on, or ends with an answer and leaves the walker at w.
WalksOn == UNCHANGED <<st, arg, dtlb>> /\ says' = {}
WalkEnds(answers) == st' = "idle" /\ says' = answers

LEMMA WalkEffect ==
  ASSUME TypeOK, Sound, ~Abandoned, Clock, st = "page_table_walk"
  PROVE  /\ UNCHANGED reservation /\ Completed = <<>>
         /\ \/ /\ walker.st = "idle" /\ WalksOn
               /\ walker' = Walking("walk", 1, Place("root", NoFrame), arg.page, NoPte)
            \/ walker.st = "walk" /\ UNCHANGED walker /\ WalksOn
            \/ /\ walker.st = "walk" /\ WalksOn
               /\ dcache.at = walker.at /\ ~Missing(walker.at) /\ dcache' = DcacheIdle
               /\ walker' = [walker EXCEPT !.st = "check", !.pte = Word]
            \/ /\ walker.st = "walk" /\ Missing(walker.at) /\ UNCHANGED <<walker, dtlb>>
               /\ WalkEnds({IF arg.op = "fetch" THEN "tlb_access_fault" ELSE "load_access_fault"})
            \/ /\ walker.st = "check" /\ IsPointer(walker.pte, walker.level) /\ WalksOn
               /\ walker' = Walking("walk", walker.level - 1,
                                    Place(walker.page, walker.pte.to), NoPage, NoPte)
            \/ /\ PteValid /\ WalkEnds({}) /\ walker' = WalkerIdle
               /\ dtlb' \in Refilled([page |-> arg.page, pte |-> walker.pte, level |-> walker.level])
            \/ /\ PageFault /\ walker' = WalkerIdle /\ UNCHANGED dtlb
               /\ WalkEnds({CASE arg.op = "fetch" -> "tlb_page_fault"
                              [] arg.op = "store" -> "store_amo_page_fault"
                              [] OTHER            -> "load_page_fault"})
<1>1. PICK out : /\ Outcome(out) /\ Walker(out)
                 /\ \/ Idle(out) \/ FlushCache(out) \/ FlushTlb(out) \/ Cacheable(out)
                    \/ PageTableWalk(out) \/ AmoOpExe(out)
  BY UnitIs DEF Clock
<1>2. PageTableWalk(out)
  BY <1>1 DEF Idle, FlushCache, FlushTlb, Cacheable, AmoOpExe
<1>3. \/ out = "none" /\ dcache' = dcache
      \/ Busy(out, WalkerRequest) /\ walker.st = "walk"
      \/ out = "ready" /\ walker.st = "walk" /\ dcache = WalkerRequest
         /\ ~Missing(walker.at) /\ dcache' = DcacheIdle
      \/ out = "load_access_fault" /\ walker.st = "walk" /\ Missing(walker.at)
         /\ dcache.op = "idle" /\ dcache' = dcache
  BY <1>1, Outcomes DEF Sound
<1>4. Completed = <<>>
  <2>1. walker.st = "walk" => walker.at.what # "data"
    BY Names DEF Sound, WalkerOK, ArgOK, Place
  <2> QED BY <1>3, <2>1 DEF Completed, WalkerRequest, Busy
<1>5. CASE walker.st = "idle"
  BY <1>1, <1>2, <1>3, <1>4, <1>5
     DEF PageTableWalk, Walker, Busy, PteValid, PageFault, Say, Raised, WalksOn
<1>6. CASE walker.st = "walk" /\ out = "none"
  BY <1>1, <1>2, <1>4, <1>6
     DEF PageTableWalk, Walker, PteValid, PageFault, Say, Raised, WalksOn
<1>7. CASE walker.st = "walk" /\ out = "ready"
  BY <1>1, <1>2, <1>3, <1>4, <1>7
     DEF PageTableWalk, Walker, PteValid, PageFault, Say, Raised, WalksOn, WalkerRequest, Busy
<1>8. CASE walker.st = "walk" /\ out = "load_access_fault"
  BY <1>1, <1>2, <1>3, <1>4, <1>8
     DEF PageTableWalk, Walker, PteValid, PageFault, Say, Raised, WalkEnds, Return, Call, Busy
<1>9. CASE walker.st = "check"
  <2>1. out = "none"
    BY <1>3, <1>9
  <2>2. ~(PteValid /\ PageFault) /\ (IsPointer(walker.pte, walker.level) <=> ~PteValid /\ ~PageFault)
    BY <1>9 DEF PteValid, PageFault, IsLeaf, IsPointer
  <2>3. CASE PteValid
    BY <1>1, <1>2, <1>4, <1>9, <2>1, <2>2, <2>3
       DEF PageTableWalk, Walker, Say, Raised, WalkEnds, Return, Call
  <2>4. CASE PageFault
    BY <1>1, <1>2, <1>4, <1>9, <2>1, <2>2, <2>4
       DEF PageTableWalk, Walker, Say, Raised, WalkEnds, Return, Call
  <2>5. CASE ~PteValid /\ ~PageFault
    BY <1>1, <1>2, <1>4, <1>9, <2>1, <2>2, <2>5
       DEF PageTableWalk, Walker, Say, Raised, WalksOn
  <2> QED BY <2>3, <2>4, <2>5
<1>10. walker.st \in {"idle", "walk", "check"}
  BY DEF TypeOK
<1> QED BY <1>3, <1>5, <1>6, <1>7, <1>8, <1>9, <1>10 DEF Busy

LEMMA FlushEffect ==
  ASSUME TypeOK, Sound, ~Abandoned, Clock, st \in {"flush_cache", "flush_tlb"}
  PROVE  /\ UNCHANGED <<reservation, walker>> /\ walker.st = "idle" /\ Completed = <<>>
         /\ \/ st = "flush_cache" /\ st' = st /\ req' = req /\ says' = {} /\ UNCHANGED dtlb
            \/ st = "flush_cache" /\ Answers("cache_flush_done", <<>>) /\ UNCHANGED dtlb
               /\ dcache' = DcacheIdle
            \/ st = "flush_tlb" /\ Answers("tlb_flush_done", <<>>) /\ dtlb' = {}
<1>1. PICK out : /\ Outcome(out) /\ Walker(out)
                 /\ \/ Idle(out) \/ FlushCache(out) \/ FlushTlb(out) \/ Cacheable(out)
                    \/ PageTableWalk(out) \/ AmoOpExe(out)
  BY UnitIs DEF Clock
<1>2. FlushCache(out) \/ FlushTlb(out)
  BY <1>1 DEF Idle, PageTableWalk, Cacheable, AmoOpExe
<1>3. walker.st = "idle" /\ walker' = walker /\ ~PageFault
  BY <1>1, WalkerRests
<1>4. /\ st = "flush_cache" => out = "none" \/ (out = "cache_flush_done" /\ dcache' = DcacheIdle)
      /\ st = "flush_tlb" => out = "none"
  BY <1>1, Outcomes DEF Sound
<1>5. Completed = <<>>
  BY BusyWith DEF Sound, Completed
<1>6. req # NoReq
  BY DEF Sound, HeldOK, NoReq
<1>7. says' = {} => req' = req
  BY <1>6, StaysIs
<1>8. CASE st = "flush_cache"
  <2>1. \/ out = "cache_flush_done" /\ Return /\ says' = {out}
        \/ out = "none" /\ Call(st, NoFrame) /\ says' = {}
    BY <1>2, <1>3, <1>4, <1>8 DEF FlushCache, FlushTlb, Say, Raised
  <2>2. UNCHANGED <<dtlb, reservation>>
    BY <1>2, <1>8 DEF FlushCache, FlushTlb
  <2>3. CASE out = "cache_flush_done"
    BY <1>3, <1>4, <1>5, <1>8, <2>1, <2>2, <2>3 DEF Answers, Return, Call
  <2>4. CASE out = "none"
    BY <1>3, <1>5, <1>7, <1>8, <2>1, <2>2, <2>4 DEF Call
  <2> QED BY <1>4, <1>8, <2>3, <2>4
<1>9. CASE st = "flush_tlb"
  BY <1>2, <1>3, <1>4, <1>5, <1>9 DEF FlushCache, FlushTlb, Say, Raised, Answers, Return, Call
<1> QED BY <1>8, <1>9

\* An access that is allowed begins in the frame its page is in.
Reaches(frame) ==
  /\ frame \in Frames
  /\ \/ ~mode.sv32 /\ frame = Untranslated(req.page)
     \/ /\ mode.sv32
        /\ \E e \in Looked(req.page) : Grants(e.pte, req.kind) /\ frame = Physical(e, req.page)

Starts(procedure, frame) ==
  st' = procedure /\ arg'.frame = frame /\ says' = {} /\ req' = req

BeginsAt(frame) ==
  \/ req.kind = "load" /\ Starts("cacheable_read", frame) /\ UNCHANGED reservation
  \/ req.kind = "lr" /\ Starts("cacheable_read", frame) /\ reservation' = frame
  \/ req.kind = "store" /\ Starts("cacheable_write", frame) /\ UNCHANGED reservation
  \/ req.kind = "sc" /\ reservation = frame /\ Starts("cacheable_write", frame) /\ reservation' = NoFrame
  \/ req.kind = "sc" /\ reservation # frame /\ Answers("ready", <<>>) /\ reservation' = NoFrame
  \/ req.kind = "amo" /\ Starts("amo_read", frame) /\ UNCHANGED reservation

\* A walk for the request follows a miss, or a denial that is reported.
WalksFor(op, page, answers) == Walk(op, page) /\ says' = answers /\ UNCHANGED reservation

Translates ==
  /\ req.kind \in Accesses /\ mode.sv32
  /\ \/ Looked(req.page) = {} /\ WalksFor(PtwOp(req.kind), req.page, {}) /\ req' = req
     \/ /\ \E e \in Looked(req.page) : ~Grants(e.pte, req.kind)
        /\ WalksFor(PtwOp(req.kind), req.page,
                    {IF req.kind \in Loads THEN "load_page_fault" ELSE "store_amo_page_fault"})

LEMMA IdleEffect ==
  ASSUME TypeOK, Sound, ~Abandoned, Clock, st = "idle"
  PROVE  /\ UNCHANGED <<dtlb, walker>> /\ walker.st = "idle" /\ Completed = <<>>
         /\ \/ req.kind \in Accesses /\ \E frame : Reaches(frame) /\ BeginsAt(frame)
            \/ Translates
            \/ /\ \/ req.kind = "cache_flush" /\ st' = "flush_cache"
                  \/ req.kind = "tlb_flush" /\ st' = "flush_tlb"
               /\ says' = {} /\ req' = req /\ UNCHANGED reservation
            \/ /\ req = NoReq /\ fetch # NoPage /\ Looked(fetch) # {}
               /\ st' = "idle" /\ says' = {"pte_ready"} /\ UNCHANGED reservation
            \/ req = NoReq /\ fetch # NoPage /\ WalksFor("fetch", fetch, {})
            \/ req = NoReq /\ st' = "idle" /\ says' = {} /\ UNCHANGED reservation
<1>1. PICK out : /\ Outcome(out) /\ Walker(out)
                 /\ \/ Idle(out) \/ FlushCache(out) \/ FlushTlb(out) \/ Cacheable(out)
                    \/ PageTableWalk(out) \/ AmoOpExe(out)
  BY UnitIs DEF Clock
<1>2. Idle(out)
  BY <1>1 DEF FlushCache, FlushTlb, PageTableWalk, Cacheable, AmoOpExe
<1>3. walker.st = "idle" /\ walker' = walker /\ ~PageFault
  BY <1>1, WalkerRests
<1>4. out = "none" /\ dcache.op = "idle"
  BY <1>1, Outcomes DEF Sound
<1>5. Completed = <<>>
  BY <1>4 DEF Completed
<1>6. Raised(out) = {}
  BY <1>3, <1>4 DEF Raised
<1>7. \A answers : Say(answers, out) => says' = answers
  BY <1>6 DEF Say
<1>8. req # NoReq /\ says' = {} => req' = req
  BY StaysIs
<1>9. ASSUME req.kind \in Accesses, Access(req.kind, req.page, out)
      PROVE  (\E frame : Reaches(frame) /\ BeginsAt(frame)) \/ Translates
  <2>1. req # NoReq /\ req.page \in Pages
    BY <1>9 DEF TypeOK, Reqs, Accesses, Loads, Writes, Flushes, NoReq
  <2>2. ASSUME NEW frame, Begin(req.kind, frame, out)
        PROVE  BeginsAt(frame)
    BY <1>5, <1>7, <1>8, <2>1, <2>2
       DEF Begin, StoreConditional, BeginsAt, Starts, Answers, Call, Return, NoArg
  <2>3. CASE ~mode.sv32 /\ Begin(req.kind, Untranslated(req.page), out)
    BY <2>1, <2>2, <2>3, PhysicalType DEF Reaches
  <2>4. ASSUME mode.sv32, NEW e \in Looked(req.page), Grants(e.pte, req.kind),
               Begin(req.kind, Physical(e, req.page), out)
        PROVE  \E frame : Reaches(frame) /\ BeginsAt(frame)
    <3>1. Physical(e, req.page) \in Frames
      BY <2>1, LookedType, PhysicalType
    <3> QED BY <2>2, <2>4, <3>1 DEF Reaches
  <2>5. ASSUME mode.sv32, NEW e \in Looked(req.page), ~Grants(e.pte, req.kind),
               Walk(PtwOp(req.kind), req.page), UNCHANGED reservation,
               Say({IF req.kind \in Loads THEN "load_page_fault" ELSE "store_amo_page_fault"}, out)
        PROVE  Translates
    BY <1>7, <1>9, <2>5 DEF Translates, WalksFor
  <2>6. ASSUME mode.sv32, Looked(req.page) = {}, Walk(PtwOp(req.kind), req.page),
               UNCHANGED reservation, Say({}, out)
        PROVE  Translates
    BY <1>7, <1>8, <1>9, <2>1, <2>6 DEF Translates, WalksFor
  <2> QED BY <1>9, <2>3, <2>4, <2>5, <2>6 DEF Access
<1>10. req.kind \in Accesses \/ req.kind \in Flushes => req # NoReq
  BY DEF NoReq, Accesses, Loads, Writes, Flushes
<1> QED BY <1>2, <1>3, <1>5, <1>7, <1>8, <1>9, <1>10 DEF Idle, Call, Return, WalksFor, Flushes

-----------------------------------------------------------------------------
(* Types.                                                                    *)

LEMMA FramesKept ==
  ASSUME TypeOK, Sound, ~Abandoned, Clock
  PROVE  /\ st' \in Procedures /\ says' \subseteq Outputs
         /\ reservation' \in Frames \cup {NoFrame}
         /\ st' \in DataProcs => arg'.frame \in Frames
<1> USE DEF Procedures, DataProcs, Reading, Writing, Outputs, Faults
<1>1. CASE st \in DataProcs
  BY <1>1, DataEffect DEF TypeOK, Sound, ArgOK, GoesOn, Answers
<1>2. CASE st = "page_table_walk"
  BY <1>2, WalkEffect DEF TypeOK, WalksOn, WalkEnds
<1>3. CASE st \in {"flush_cache", "flush_tlb"}
  BY <1>3, FlushEffect DEF TypeOK, GoesOn, Answers
<1>4. CASE st = "idle"
  BY <1>4, IdleEffect
     DEF TypeOK, Reaches, BeginsAt, Starts, Answers, Translates, WalksFor, Walk
<1>5. st \in Procedures
  BY DEF TypeOK
<1> QED BY <1>1, <1>2, <1>3, <1>4, <1>5

Args == [op : {"load", "store", "fetch", "none"}, page : Pages \cup {NoPage},
         frame : Frames \cup {NoFrame}]

LEMMA ArgType ==
  ASSUME TypeOK, Sound, ~Abandoned, Clock
  PROVE  /\ arg' \in Args
         /\ st' = "page_table_walk" => arg'.page \in Pages /\ arg'.op \in {"load", "store", "fetch"}
<1>1. PICK out : /\ Outcome(out) /\ Walker(out)
                 /\ \/ Idle(out) \/ FlushCache(out) \/ FlushTlb(out) \/ Cacheable(out)
                    \/ PageTableWalk(out) \/ AmoOpExe(out)
  BY UnitIs DEF Clock
<1>2. arg \in Args /\ (st = "page_table_walk" => arg.page \in Pages /\ arg.op \in {"load", "store", "fetch"})
  BY DEF TypeOK, Args, Sound, ArgOK
<1>3. \A procedure : \A frame \in Frames \cup {NoFrame} :
        Call(procedure, frame) => arg' \in Args /\ st' = procedure
  BY DEF Call, NoArg, Args
<1>4. Return => arg' \in Args /\ st' = "idle"
  BY DEF Return, Call, NoArg, Args
<1>5. \A op \in {"load", "store", "fetch"}, page \in Pages :
        Walk(op, page) => arg' \in Args /\ arg'.page = page /\ arg'.op = op
  BY DEF Walk, Args
<1>6. arg.frame \in Frames \cup {NoFrame}
  BY <1>2 DEF Args
<1>7. CASE Idle(out)
  <2>1. st = "idle"
    BY <1>7 DEF Idle
  <2>2. ASSUME req.kind \in Accesses, Access(req.kind, req.page, out)
        PROVE  /\ arg' \in Args
               /\ st' = "page_table_walk" => arg'.page \in Pages /\ arg'.op \in {"load", "store", "fetch"}
    <3>1. req.page \in Pages
      BY <2>2 DEF TypeOK, Reqs, Accesses, Loads, Writes, Flushes, NoReq
    <3>2. ASSUME NEW frame \in Frames, Begin(req.kind, frame, out)
          PROVE  arg' \in Args /\ st' # "page_table_walk"
      BY <1>3, <1>4, <3>2 DEF Begin, StoreConditional
    <3>3. PtwOp(req.kind) \in {"load", "store", "fetch"}
      BY DEF PtwOp
    <3>4. Untranslated(req.page) \in Frames
      BY <3>1, PhysicalType
    <3>5. \A e \in Looked(req.page) : Physical(e, req.page) \in Frames
      BY <3>1, LookedType, PhysicalType
    <3> QED BY <1>5, <2>2, <3>1, <3>2, <3>3, <3>4, <3>5 DEF Access
  <2>3. fetch # NoPage => fetch \in Pages
    BY DEF TypeOK
  <2> QED BY <1>3, <1>4, <1>5, <1>7, <2>2, <2>3 DEF Idle
<1>8. CASE FlushCache(out) \/ FlushTlb(out) \/ Cacheable(out) \/ AmoOpExe(out)
  <2>1. CASE FlushCache(out) BY <1>3, <1>4, <2>1 DEF FlushCache
  <2>2. CASE FlushTlb(out) BY <1>4, <2>2 DEF FlushTlb
  <2>3. CASE Cacheable(out) BY <1>3, <1>4, <1>6, <2>3 DEF Cacheable
  <2>4. CASE AmoOpExe(out) BY <1>3, <1>4, <1>6, <2>4 DEF AmoOpExe
  <2> QED BY <1>8, <2>1, <2>2, <2>3, <2>4
<1>9. CASE PageTableWalk(out)
  BY <1>2, <1>4, <1>9 DEF PageTableWalk
<1> QED BY <1>1, <1>7, <1>8, <1>9

LEMMA DcacheType ==
  ASSUME TypeOK, Sound, ~Abandoned, Clock
  PROVE  dcache' \in [op : {"idle", "read", "write", "flush"}, at : Places]
<1>1. PICK out : Outcome(out)
  BY UnitIs DEF Clock
<1>2. \A c \in Asked : c \in [op : {"idle", "read", "write", "flush"}, at : Places]
  <2>1. st \in Reading \cup Writing => Place("data", arg.frame) \in Places
    BY DEF Sound, ArgOK, DataProcs, Place, Places
  <2>2. walker.at \in Places
    BY DEF TypeOK
  <2> QED BY <2>1, <2>2, AskedIs DEF Request, WalkerRequest
<1>3. dcache \in [op : {"idle", "read", "write", "flush"}, at : Places]
  BY DEF TypeOK
<1>4. /\ DcacheIdle \in [op : {"idle", "read", "write", "flush"}, at : Places]
      /\ [DcacheIdle EXCEPT !.op = "flush"] \in [op : {"idle", "read", "write", "flush"}, at : Places]
  BY DEF DcacheIdle, Places
<1> QED BY <1>1, <1>2, <1>3, <1>4 DEF Outcome, Takes, Ends, Refuses

\* What the walker reads.
LEMMA WordIs ==
  ASSUME TypeOK, Sound, ~Abandoned, walker.st = "walk", dcache.at = walker.at
  PROVE  /\ Word \in Ptes
         /\ Word = IF walker.level = 1 THEN table.root ELSE table.leaf[arg.page]
<1>1. arg.page \in Pages
  BY DEF Sound, ArgOK, Abandoned
<1>2. table \in [root : Ptes, leaf : [Pages -> Ptes]]
  BY LoadStoreUnitAssumption DEF TypeOK
<1>3. CASE walker.level = 1
  BY <1>2, <1>3 DEF Sound, WalkerOK, Word, Place
<1>4. CASE walker.level = 0
  BY <1>1, <1>2, <1>4, Names DEF Sound, WalkerOK, Word
<1> QED BY <1>3, <1>4 DEF Sound, WalkerOK

Walkers == [st : {"idle", "walk", "check"}, level : Levels, at : Places,
            page : Pages \cup {NoPage}, pte : Ptes \cup {NoPte}]

LEMMA WalkerType ==
  ASSUME TypeOK, Sound, ~Abandoned, Clock
  PROVE  walker' \in Walkers
<1>1. walker \in Walkers
  BY DEF TypeOK, Walkers
<1>2. WalkerIdle \in Walkers
  BY DEF WalkerIdle, Walking, Walkers, Levels, Places
<1>3. st # "page_table_walk" => walker' = walker
  BY UnitIs, WalkerRests DEF Clock
<1>4. ASSUME st = "page_table_walk"
      PROVE  walker' \in Walkers
  <2>1. arg.page \in Pages
    BY <1>4 DEF Sound, ArgOK
  <2>2. Walking("walk", 1, Place("root", NoFrame), arg.page, NoPte) \in Walkers
    BY <2>1 DEF Walking, Walkers, Levels, Places
  <2>3. ASSUME walker.st = "walk", dcache.at = walker.at
        PROVE  [walker EXCEPT !.st = "check", !.pte = Word] \in Walkers
    BY <1>1, <2>3, WordIs DEF Walkers
  <2>4. ASSUME walker.st = "check", IsPointer(walker.pte, walker.level)
        PROVE  Walking("walk", walker.level - 1, Place(walker.page, walker.pte.to), NoPage, NoPte) \in Walkers
    <3>1. walker.level = 1 /\ walker.page = arg.page /\ walker.pte \in Ptes
      BY <2>4 DEF IsPointer, Sound, WalkerOK
    <3>2. Place(walker.page, walker.pte.to) \in Places
      BY <2>1, <3>1 DEF Place, Places, Ptes
    <3> QED BY <3>1, <3>2 DEF Walking, Walkers, Levels
  <2> QED BY <1>1, <1>2, <1>4, <2>2, <2>3, <2>4, WalkEffect
<1> QED BY <1>1, <1>3, <1>4

\* A refill keeps within the size of the TLB.
LEMMA TlbType ==
  ASSUME TypeOK, IsFiniteSet(dtlb), Sound, ~Abandoned, Clock
  PROVE  /\ dtlb' \subseteq [page : Pages, pte : Ptes, level : Levels]
         /\ IsFiniteSet(dtlb') /\ Cardinality(dtlb') <= TlbSize
<1>1. /\ dtlb \subseteq [page : Pages, pte : Ptes, level : Levels]
      /\ Cardinality(dtlb) <= TlbSize /\ TlbSize \in Nat
  BY LoadStoreUnitAssumption DEF TypeOK
<1>2. CASE dtlb' = dtlb
  BY <1>1, <1>2
<1>3. CASE dtlb' = {}
  BY <1>1, <1>3, FS_EmptySet
<1>4. ASSUME st = "page_table_walk", PteValid,
             dtlb' \in Refilled([page |-> arg.page, pte |-> walker.pte, level |-> walker.level])
      PROVE  /\ dtlb' \subseteq [page : Pages, pte : Ptes, level : Levels]
             /\ IsFiniteSet(dtlb') /\ Cardinality(dtlb') <= TlbSize
  <2> DEFINE e == [page |-> arg.page, pte |-> walker.pte, level |-> walker.level]
  <2>1. e \in [page : Pages, pte : Ptes, level : Levels]
    BY <1>4 DEF PteValid, Sound, ArgOK, WalkerOK, TypeOK
  <2> HIDE DEF e
  <2>2. IsFiniteSet(dtlb \cup {e})
    BY FS_AddElement
  <2>3. CASE dtlb' = dtlb \cup {e} /\ Cardinality(dtlb \cup {e}) <= TlbSize
    BY <1>1, <2>1, <2>2, <2>3
  <2>4. ASSUME NEW o \in dtlb, dtlb' = (dtlb \ {o}) \cup {e}
        PROVE  /\ dtlb' \subseteq [page : Pages, pte : Ptes, level : Levels]
               /\ IsFiniteSet(dtlb') /\ Cardinality(dtlb') <= TlbSize
    <3>1. IsFiniteSet(dtlb \ {o}) /\ Cardinality(dtlb \ {o}) = Cardinality(dtlb) - 1
      BY FS_RemoveElement
    <3>2. /\ IsFiniteSet((dtlb \ {o}) \cup {e})
          /\ \/ Cardinality((dtlb \ {o}) \cup {e}) = Cardinality(dtlb \ {o})
             \/ Cardinality((dtlb \ {o}) \cup {e}) = Cardinality(dtlb \ {o}) + 1
      BY <3>1, FS_AddElement
    <3>3. Cardinality(dtlb) \in Nat
      BY FS_CardinalityType
    <3> QED BY <1>1, <2>1, <2>4, <3>1, <3>2, <3>3
  <2> QED BY <1>4, <2>3, <2>4 DEF Refilled, e
<1>5. CASE st \in DataProcs BY <1>2, <1>5, DataEffect
<1>6. CASE st = "page_table_walk" BY <1>2, <1>4, <1>6, WalkEffect DEF WalksOn
<1>7. CASE st \in {"flush_cache", "flush_tlb"} BY <1>2, <1>3, <1>7, FlushEffect
<1>8. CASE st = "idle" BY <1>2, <1>8, IdleEffect
<1> QED BY <1>5, <1>6, <1>7, <1>8 DEF TypeOK, Procedures, DataProcs, Reading, Writing

LEMMA ClientType ==
  ASSUME TypeOK, Clock
  PROVE  /\ req' \in Reqs \cup {NoReq} /\ fetch' \in Pages \cup {NoPage}
         /\ mode' \in Modes /\ table' \in Tables /\ ahead' \in 0..InFlight
         /\ remaps' \in BOOLEAN /\ waited' \in BOOLEAN /\ moved' \in BOOLEAN
         /\ linked' \in Frames \cup {NoFrame}
<1>1. req' \in Reqs \cup {NoReq}
  BY DEF TypeOK, Clock, MemoryStage
<1>2. ahead' \in 0..InFlight
  BY LoadStoreUnitAssumption DEF TypeOK, Clock, MemoryStage
<1>3. fetch' \in Pages \cup {NoPage}
  BY DEF TypeOK, Clock, FetchUnit
<1>4. mode' \in Modes /\ table' \in Tables
  BY DEF TypeOK, Clock, Status
<1>5. remaps' \in BOOLEAN /\ waited' \in BOOLEAN /\ moved' \in BOOLEAN
  <2>1. remaps' = IF "tlb_flush_done" \in says' THEN FALSE ELSE remaps \/ table' # table
    BY DEF Clock, History
  <2>2. waited' = Stays /\ moved' = (Stays /\ (moved \/ mode' # mode))
    BY DEF Clock, History
  <2>3. Stays \in BOOLEAN
    BY DEF Stays
  <2> QED BY <2>1, <2>2, <2>3, Zenon
<1>6. linked' \in Frames \cup {NoFrame}
  <2>1. dcache.at.frame \in Frames \cup {NoFrame}
    BY DEF TypeOK, Places, Place
  <2> QED BY <2>1 DEF Clock, History, TypeOK
<1> QED BY <1>1, <1>2, <1>3, <1>4, <1>5, <1>6

\* An answer ends the request with its accesses; of those of an AMO the read
\* comes first.
LEMMA MadeStep ==
  ASSUME TypeOK, Sound, ~Abandoned, Clock
  PROVE  made' = IF st' \in {"amo_alu_op", "amo_writeback"} THEN At("read")' ELSE <<>>
<1>1. made' = IF Stays THEN made \o Completed ELSE <<>>
  BY DEF Clock, History
<1>2. made = IF st \in {"amo_alu_op", "amo_writeback"} THEN At("read") ELSE <<>>
  BY DEF Sound, HeldOK, At
<1>3. \A a : At(a) \o <<>> = At(a) /\ <<>> \o At(a) = At(a)
  BY DEF At
<1>4. ASSUME Completed = <<>>, st \notin {"amo_alu_op", "amo_writeback"},
             st' \notin {"amo_alu_op", "amo_writeback"}
      PROVE  made' = IF st' \in {"amo_alu_op", "amo_writeback"} THEN At("read")' ELSE <<>>
  BY <1>1, <1>2, <1>4
<1>5. CASE st \in DataProcs
  <2>1. req # NoReq
    BY <1>5 DEF Sound, HeldOK, DataProcs, Reading, Writing, NoReq, Loads
  <2>2. says' = {} => Stays
    BY <2>1, StaysIs
  <2>3. \A a \in {"ready", "load_access_fault", "store_amo_access_fault"} :
          a \in says' => made' = <<>>
    BY <1>1, AnswerEnds DEF Faults
  <2>4. arg'.frame = arg.frame => At("read")' = At("read")
    BY DEF At
  <2>5. CASE says' = {}
    <3>1. made' = made \o Completed
      BY <1>1, <2>2, <2>5
    <3>2. \/ st # "amo_alu_op" /\ st' = st /\ Completed = <<>>
          \/ st = "amo_read" /\ st' = "amo_alu_op" /\ Completed = At("read")
          \/ st = "amo_alu_op" /\ st' = "amo_writeback" /\ Completed = <<>>
      BY <1>5, <2>5, DataEffect DEF GoesOn, Answers
    <3>3. arg'.frame = arg.frame
      BY <1>5, <2>5, DataEffect DEF GoesOn, Answers
    <3>4. At("read")' = At("read")
      BY <2>4, <3>3
    <3>5. <<>> \o <<>> = <<>>
      OBVIOUS
    <3>6. CASE st = "amo_writeback"
      BY <1>2, <1>3, <3>1, <3>2, <3>4, <3>6
    <3>7. CASE st = "amo_alu_op"
      BY <1>2, <1>3, <3>1, <3>2, <3>4, <3>7
    <3>8. CASE st = "amo_read"
      BY <1>2, <1>3, <3>1, <3>2, <3>4, <3>5, <3>8
    <3>9. CASE st \in {"cacheable_read", "cacheable_write"}
      BY <1>2, <3>1, <3>2, <3>5, <3>9
    <3> QED BY <1>5, <3>6, <3>7, <3>8, <3>9 DEF DataProcs, Reading, Writing
  <2>6. CASE says' # {}
    BY <1>5, <2>3, <2>6, DataEffect DEF GoesOn, Answers
  <2> QED BY <2>5, <2>6
<1>6. CASE st = "page_table_walk"
  BY <1>4, <1>6, WalkEffect DEF WalksOn, WalkEnds
<1>7. CASE st \in {"flush_cache", "flush_tlb"}
  BY <1>4, <1>7, FlushEffect DEF GoesOn, Answers
<1>8. CASE st = "idle"
  <2>1. CASE st' \in {"amo_alu_op", "amo_writeback"}
    BY <1>8, <2>1, IdleEffect DEF BeginsAt, Starts, Answers, Translates, WalksFor, Walk
  <2>2. CASE st' \notin {"amo_alu_op", "amo_writeback"}
    BY <1>4, <1>8, <2>2, IdleEffect
  <2> QED BY <2>1, <2>2
<1> QED BY <1>5, <1>6, <1>7, <1>8 DEF TypeOK, Procedures, DataProcs, Reading, Writing

LEMMA TypeStep ==
  ASSUME TypeOK, IsFiniteSet(dtlb), Sound, ~Abandoned, Clock
  PROVE  TypeOK' /\ IsFiniteSet(dtlb)'
<1>1. made' \in Seq([op : {"read", "write"}, frame : Frames]) /\ Len(made') <= 1
  <2>1. CASE st' \in {"amo_alu_op", "amo_writeback"}
    <3>1. arg'.frame \in Frames
      BY <2>1, FramesKept DEF DataProcs, Writing
    <3>2. made' = <<[op |-> "read", frame |-> arg'.frame]>>
      BY <2>1, MadeStep DEF At
    <3>3. [op |-> "read", frame |-> arg'.frame] \in [op : {"read", "write"}, frame : Frames]
      BY <3>1
    <3>4. \A x : Len(<<x>>) = 1
      OBVIOUS
    <3> QED BY <3>2, <3>3, <3>4
  <2>2. CASE st' \notin {"amo_alu_op", "amo_writeback"}
    BY <2>2, MadeStep
  <2> QED BY <2>1, <2>2
<1> QED BY <1>1, FramesKept, ArgType, DcacheType, WalkerType, TlbType, ClientType
        DEF TypeOK, Args, Walkers

-----------------------------------------------------------------------------
(* The unit, its walker and the data cache stay in step.                     *)

LEMMA BusStep ==
  ASSUME TypeOK, Sound, ~Abandoned, Clock
  PROVE  BusOK'
<1>1. PICK out : Outcome(out)
  BY UnitIs DEF Clock
<1>2. dcache.op \in {"idle", "read", "write", "flush"} /\ DcacheIdle.op = "idle"
  BY DEF TypeOK, DcacheIdle
<1>3. ASSUME NEW op \in {"read", "write"},
             \/ Busy(out, Request(op)) \/ dcache' = DcacheIdle
             \/ dcache.op = "idle" /\ dcache' = dcache,
             dcache.op = "idle" \/ (dcache = Request(op) /\ arg.frame \in Ram),
             st \in IF op = "read" THEN Reading ELSE Writing
      PROVE  BusOK'
  <2>1. CASE dcache'.op = "idle"
    BY <2>1 DEF BusOK
  <2>2. CASE dcache'.op # "idle"
    <3>1. dcache' = Request(op) /\ arg.frame \in Ram
      BY <1>2, <1>3, <2>2 DEF Busy, Missing, Request, Place
    <3>2. Completed = <<>>
      BY <2>2 DEF Completed
    <3>3. st' = st /\ arg'.frame = arg.frame
      <4>1. At("read") # <<>> /\ At("write") # <<>>
        BY DEF At
      <4>2. st \in DataProcs /\ st # "amo_alu_op"
        BY <1>3 DEF DataProcs, Reading, Writing
      <4> QED BY <3>1, <3>2, <4>1, <4>2, DataEffect DEF GoesOn, Answers
    <3>4. dcache' \in Asked'
      BY <1>3, <3>1, <3>3 DEF Asked, Request, Reading, Writing
    <3>5. ~Missing(dcache'.at) /\ dcache'.op # "flush"
      BY <3>1 DEF Missing, Request, Place
    <3> QED BY <3>4, <3>5 DEF BusOK, Missing
  <2> QED BY <2>1, <2>2
<1>4. CASE st \in Reading
  BY <1>1, <1>3, <1>4, Outcomes, BusyWith DEF Sound
<1>5. CASE st \in Writing
  <2>1. \/ Busy(out, Request("write")) \/ dcache' = DcacheIdle
        \/ dcache.op = "idle" /\ dcache' = dcache
    BY <1>1, <1>5, Outcomes DEF Sound
  <2>2. dcache.op = "idle" \/ (dcache = Request("write") /\ arg.frame \in Ram)
    BY <1>5, BusyWith DEF Sound
  <2> QED BY <1>3, <1>5, <2>1, <2>2
<1>6. CASE st = "amo_alu_op"
  BY <1>1, <1>6, Outcomes DEF Sound, BusOK
<1>7. CASE st = "page_table_walk"
  <2>1. CASE dcache'.op = "idle"
    BY <2>1 DEF BusOK
  <2>2. CASE dcache'.op # "idle"
    <3>1. dcache' = WalkerRequest /\ ~Missing(walker.at) /\ walker.st = "walk"
      BY <1>1, <1>2, <1>7, <2>2, Outcomes, BusyWith DEF Sound, Busy, WalkerRequest
    <3>2. UNCHANGED <<st, arg, walker>>
      BY <1>2, <1>7, <2>2, <3>1, WalkEffect DEF WalksOn, PteValid, PageFault
    <3>3. dcache' \in Asked'
      BY <1>7, <3>1, <3>2 DEF Asked, WalkerRequest
    <3> QED BY <3>1, <3>3 DEF BusOK, WalkerRequest, Missing
  <2> QED BY <2>1, <2>2
<1>8. CASE st = "flush_cache"
  <2>1. dcache'.op \in {"idle", "flush"}
    BY <1>1, <1>2, <1>8, Outcomes DEF Sound
  <2>2. dcache'.op = "flush" => st' = "flush_cache"
    BY <1>2, <1>8, FlushEffect
  <2> QED BY <2>1, <2>2 DEF BusOK
<1>9. CASE st = "flush_tlb"
  BY <1>1, <1>9, Outcomes DEF Sound, BusOK
<1>10. CASE st = "idle"
  <2>1. \/ dcache'.op = "idle"
        \/ req.kind = "cache_flush" /\ dcache'.op = "flush"
    BY <1>1, <1>10, Outcomes DEF Sound, DcacheIdle
  <2>2. req.kind = "cache_flush" => st' = "flush_cache"
    BY <1>10, IdleEffect DEF Translates, NoReq, Accesses, Loads, Writes
  <2> QED BY <2>1, <2>2 DEF BusOK
<1> QED BY <1>4, <1>5, <1>6, <1>7, <1>8, <1>9, <1>10 DEF TypeOK, Procedures, Reading, Writing

LEMMA WalkerStep ==
  ASSUME TypeOK, Sound, ~Abandoned, Clock, ~Abandoned'
  PROVE  WalkerOK'
<1>1. CASE st # "page_table_walk"
  <2>1. walker.st = "idle" /\ walker' = walker
    BY <1>1, UnitIs, WalkerRests DEF Clock
  <2> QED BY <2>1 DEF WalkerOK
<1>2. CASE st = "page_table_walk"
  <2>1. CASE walker'.st = "idle"
    BY <2>1 DEF WalkerOK
  <2>2. CASE walker'.st # "idle"
    <3>1. WalksOn
      BY <1>2, <2>2, WalkEffect DEF WalkEnds, Abandoned, WalkerIdle, Walking
    <3>2. CASE walker' = walker
      BY <3>1, <3>2 DEF Sound, WalkerOK, WalksOn, Missing
    <3>3. CASE walker' = Walking("walk", 1, Place("root", NoFrame), arg.page, NoPte)
      BY <3>1, <3>3 DEF WalkerOK, WalksOn, Walking
    <3>4. CASE /\ walker.st = "walk" /\ dcache.at = walker.at /\ ~Missing(walker.at)
               /\ walker' = [walker EXCEPT !.st = "check", !.pte = Word]
      <4>1. Word \in Ptes
        BY <3>4, WordIs
      <4>2. /\ walker'.st = "check" /\ walker'.pte = Word /\ walker'.level = walker.level
            /\ walker'.at = walker.at /\ walker'.page = walker.page
        BY <3>4 DEF TypeOK
      <4> QED BY <3>1, <3>4, <4>1, <4>2 DEF Sound, WalkerOK, WalksOn, Missing
    <3>5. CASE /\ walker.st = "check" /\ IsPointer(walker.pte, walker.level)
               /\ walker' = Walking("walk", walker.level - 1,
                                    Place(walker.page, walker.pte.to), NoPage, NoPte)
      <4>1. walker.level = 1 /\ walker.page = arg.page
        BY <3>5 DEF Sound, WalkerOK, IsPointer
      <4> QED BY <3>1, <3>5, <4>1 DEF WalkerOK, WalksOn, Walking, Place
    <3> QED BY <1>2, <2>2, <3>1, <3>2, <3>3, <3>4, <3>5, WalkEffect
            DEF WalkerIdle, Walking
  <2> QED BY <2>1, <2>2
<1> QED BY <1>1, <1>2

LEMMA HeldStep ==
  ASSUME TypeOK, Sound, ~Abandoned, Clock
  PROVE  HeldOK'
<1>1. made' = IF st' \in {"amo_alu_op", "amo_writeback"}
              THEN <<[op |-> "read", frame |-> arg'.frame]>> ELSE <<>>
  BY MadeStep DEF At
<1>2. HeldOK
  BY DEF Sound
<1>3. CASE st \in DataProcs
  BY <1>1, <1>2, <1>3, DataEffect DEF HeldOK, GoesOn, Answers, DataProcs, Reading, Writing
<1>4. CASE st = "page_table_walk"
  <2>1. st' \in {"page_table_walk", "idle"}
    BY <1>4, WalkEffect DEF WalksOn, WalkEnds
  <2> QED BY <1>1, <2>1 DEF HeldOK
<1>5. CASE st \in {"flush_cache", "flush_tlb"}
  BY <1>1, <1>2, <1>5, FlushEffect DEF HeldOK, Answers
<1>6. CASE st = "idle"
  <2>1. \/ st' \in {"idle", "page_table_walk"}
        \/ /\ req' = req
           /\ \/ st' = "cacheable_read" /\ req.kind \in Loads
              \/ st' = "cacheable_write" /\ req.kind \in {"store", "sc"}
              \/ st' = "amo_read" /\ req.kind = "amo"
              \/ st' = "flush_cache" /\ req.kind = "cache_flush"
              \/ st' = "flush_tlb" /\ req.kind = "tlb_flush"
    BY <1>6, IdleEffect DEF BeginsAt, Starts, Answers, Translates, WalksFor, Walk, Loads
  <2> QED BY <1>1, <2>1 DEF HeldOK
<1> QED BY <1>3, <1>4, <1>5, <1>6 DEF TypeOK, Procedures, DataProcs, Reading, Writing

\* What the history of lr and sc becomes.
LEMMA LinkedIs ==
  ASSUME Clock
  PROVE  /\ says' \cap {"ready", "load_access_fault", "store_amo_access_fault"} = {}
              => linked' = linked
         /\ req.kind \notin {"lr", "sc"} => linked' = linked
         /\ req.kind = "lr" /\ says' = {"ready"} /\ Completed = At("read") => linked' = arg.frame
         /\ req.kind = "sc" /\ says' = {"ready"} => linked' = NoFrame
         /\ \A a \in {"load_access_fault", "store_amo_access_fault"} :
              req.kind \in {"lr", "sc"} /\ says' = {a} => linked' = NoFrame
<1>1. linked' =
       CASE req.kind = "lr" /\ "ready" \in says' /\ Completed # <<>> -> dcache.at.frame
         [] req.kind = "sc" /\ "ready" \in says'                     -> NoFrame
         [] req.kind \in {"lr", "sc"}
              /\ says' \cap {"load_access_fault", "store_amo_access_fault"} # {} -> NoFrame
         [] OTHER -> linked
  BY DEF Clock, History
<1>2. Completed = At("read") => Completed # <<>> /\ dcache.at.frame = arg.frame
  BY DEF Completed, At
<1> QED BY <1>1, <1>2

LEMMA LinkedStep ==
  ASSUME TypeOK, Sound, ~Abandoned, Clock, ~Abandoned'
  PROVE  LinkedOK'
<1>1. LinkedOK /\ HeldOK
  BY DEF Sound
<1>2. NoFrame \notin Ram
  BY Names
<1>3. CASE st = "cacheable_read"
  <2>1. UNCHANGED reservation
    BY <1>3, DataEffect DEF DataProcs, Reading
  <2>2. CASE GoesOn(st, <<>>)
    BY <1>1, <1>3, <2>1, <2>2, LinkedIs DEF GoesOn, LinkedOK
  <2>3. CASE Answers("ready", At("read"))
    BY <1>1, <1>3, <2>1, <2>3, LinkedIs DEF Answers, LinkedOK, HeldOK, Loads
  <2>4. CASE arg.frame \notin Ram /\ Answers("load_access_fault", <<>>)
    BY <1>1, <1>3, <2>1, <2>4, LinkedIs DEF Answers, LinkedOK, HeldOK, Loads
  <2> QED BY <1>3, <2>2, <2>3, <2>4, DataEffect DEF DataProcs, Reading, Writing
<1>4. CASE st = "cacheable_write"
  <2>1. UNCHANGED reservation
    BY <1>4, DataEffect DEF DataProcs, Writing
  <2>2. CASE GoesOn(st, <<>>)
    BY <1>1, <1>4, <2>1, <2>2, LinkedIs DEF GoesOn, LinkedOK
  <2>3. CASE Answers("ready", At("write"))
    BY <1>1, <1>4, <2>1, <2>3, LinkedIs DEF Answers, LinkedOK, HeldOK
  <2>4. CASE Answers("store_amo_access_fault", <<>>)
    BY <1>1, <1>4, <2>1, <2>4, LinkedIs DEF Answers, LinkedOK, HeldOK
  <2> QED BY <1>4, <2>2, <2>3, <2>4, DataEffect DEF DataProcs, Reading, Writing
<1>5. CASE st \in {"amo_read", "amo_alu_op", "amo_writeback"}
  <2>1. UNCHANGED reservation /\ st' \in {"amo_read", "amo_alu_op", "amo_writeback", "idle"}
    BY <1>5, DataEffect DEF DataProcs, Reading, Writing, GoesOn, Answers
  <2>2. linked' = linked
    BY <1>1, <1>5, LinkedIs DEF HeldOK
  <2> QED BY <1>1, <1>5, <2>1, <2>2 DEF LinkedOK
<1>6. CASE st = "page_table_walk"
  <2>1. /\ UNCHANGED reservation /\ st' \in {"page_table_walk", "idle"}
        /\ says' \cap {"ready", "load_access_fault", "store_amo_access_fault"} = {}
    BY <1>6, WalkEffect DEF WalksOn, WalkEnds, Abandoned
  <2>2. linked' = linked
    BY <2>1, LinkedIs
  <2> QED BY <1>1, <1>6, <2>1, <2>2 DEF LinkedOK
<1>7. CASE st \in {"flush_cache", "flush_tlb"}
  <2>1. UNCHANGED reservation /\ st' \in {"flush_cache", "flush_tlb", "idle"}
    BY <1>7, FlushEffect DEF Answers
  <2>2. linked' = linked
    BY <1>1, <1>7, LinkedIs DEF HeldOK
  <2> QED BY <1>1, <1>7, <2>1, <2>2 DEF LinkedOK
<1>8. CASE st = "idle"
  <2>1. linked = reservation \/ (linked = NoFrame /\ reservation \notin Ram)
    BY <1>1, <1>8 DEF LinkedOK
  <2>2. ASSUME NEW frame, BeginsAt(frame)
        PROVE  LinkedOK'
    <3>1. says' = {} => linked' = linked
      BY LinkedIs
    <3>2. CASE req.kind # "sc"
      BY <2>1, <2>2, <3>1, <3>2 DEF BeginsAt, Starts, LinkedOK
    <3>3. CASE req.kind = "sc" /\ reservation = frame
      BY <2>1, <2>2, <3>1, <3>3 DEF BeginsAt, Starts, LinkedOK
    <3>4. CASE req.kind = "sc" /\ reservation # frame
      BY <2>2, <3>4, LinkedIs DEF BeginsAt, Answers, LinkedOK
    <3> QED BY <3>2, <3>3, <3>4
  <2>3. ASSUME UNCHANGED reservation, st' \in {"idle", "page_table_walk", "flush_cache", "flush_tlb"},
               says' \cap {"ready", "load_access_fault", "store_amo_access_fault"} = {}
        PROVE  LinkedOK'
    BY <2>1, <2>3, LinkedIs DEF LinkedOK
  <2>4. Translates => LinkedOK'
    BY <2>3 DEF Translates, WalksFor, Walk
  <2>5. WalksFor("fetch", fetch, {}) => LinkedOK'
    BY <2>3 DEF WalksFor, Walk
  <2> QED BY <1>8, <2>2, <2>3, <2>4, <2>5, IdleEffect
<1> QED BY <1>3, <1>4, <1>5, <1>6, <1>7, <1>8 DEF TypeOK, Procedures

LEMMA SoundStep ==
  ASSUME TypeOK, Sound, ~Abandoned, Clock, ~Abandoned'
  PROVE  Sound'
<1>1. ArgOK'
  BY FramesKept, ArgType DEF ArgOK, DataProcs, Reading, Writing
<1> QED BY <1>1, BusStep, WalkerStep, HeldStep, LinkedStep DEF Sound

-----------------------------------------------------------------------------
LEMMA InitSound == Init => TypeOK /\ IsFiniteSet(dtlb) /\ Sound /\ ~Abandoned
<1> SUFFICES ASSUME Init PROVE TypeOK /\ IsFiniteSet(dtlb) /\ Sound /\ ~Abandoned
  OBVIOUS
<1>1. IsFiniteSet(dtlb) /\ Cardinality(dtlb) = 0
  BY FS_EmptySet DEF Init
<1>2. walker = WalkerIdle /\ dcache = DcacheIdle
  BY DEF Init
<1>3. /\ walker \in [st : {"idle", "walk", "check"}, level : Levels, at : Places,
                     page : Pages \cup {NoPage}, pte : Ptes \cup {NoPte}]
      /\ walker.st = "idle"
  BY <1>2 DEF WalkerIdle, Walking, Levels, Places
<1>4. dcache \in [op : {"idle", "read", "write", "flush"}, at : Places] /\ dcache.op = "idle"
  BY <1>2 DEF DcacheIdle, Places
<1>5. TypeOK
  <2>1. Cardinality(dtlb) <= TlbSize /\ ahead \in 0..InFlight
    BY <1>1, LoadStoreUnitAssumption DEF Init
  <2>2. made \in Seq([op : {"read", "write"}, frame : Frames]) /\ Len(made) <= 1
    BY DEF Init
  <2>3. /\ st \in Procedures /\ arg \in Args /\ dtlb = {} /\ reservation = NoFrame
        /\ req = NoReq /\ fetch = NoPage /\ mode \in Modes /\ table \in Tables /\ says = {}
        /\ remaps = FALSE /\ waited = FALSE /\ moved = FALSE /\ linked = NoFrame
    BY DEF Init, Procedures, NoArg, Args
  <2> QED BY <1>3, <1>4, <2>1, <2>2, <2>3 DEF TypeOK, Args
<1>6. Sound
  BY <1>3, <1>4 DEF Init, Sound, ArgOK, BusOK, WalkerOK, HeldOK, LinkedOK, DataProcs, Reading, Writing
<1> QED BY <1>1, <1>3, <1>5, <1>6 DEF Abandoned

LEMMA Stuttering ==
  ASSUME UNCHANGED vars
  PROVE  /\ TypeOK => TypeOK'
         /\ IsFiniteSet(dtlb) => IsFiniteSet(dtlb)'
         /\ Sound => Sound'
         /\ Abandoned => Abandoned'
<1> USE DEF vars, unit, client
<1>1. TypeOK => TypeOK'
  BY DEF TypeOK
<1>2. Sound => Sound'
  BY DEF Sound, ArgOK, BusOK, WalkerOK, HeldOK, LinkedOK, Asked, Missing
<1> QED BY <1>1, <1>2 DEF Abandoned

\* From a walk that was abandoned the module does not go on.
Steady == TypeOK /\ IsFiniteSet(dtlb) /\ (Abandoned \/ Sound)

LEMMA SteadyAlways == Spec => []Steady
<1>1. Init => Steady
  BY InitSound DEF Steady
<1>2. Steady /\ [Next]_vars => Steady'
  <2> SUFFICES ASSUME Steady, [Next]_vars PROVE Steady'
    OBVIOUS
  <2>1. CASE Clock
    <3>1. Sound /\ ~Abandoned
      BY <2>1 DEF Steady, Clock
    <3> QED BY <2>1, <3>1, TypeStep, SoundStep DEF Steady
  <2>2. CASE UNCHANGED vars
    BY <2>2, Stuttering DEF Steady
  <2> QED BY <2>1, <2>2 DEF Next, Lost
<1> QED BY <1>1, <1>2, PTL DEF Spec

(* The variables keep their types: the TLB its size however it is refilled,  *)
(* and a request that is under way has made one access at most.              *)
THEOREM TypeCorrect == Spec => []TypeOK
<1>1. Steady => TypeOK
  BY DEF Steady
<1> QED BY <1>1, SteadyAlways, PTL

-----------------------------------------------------------------------------
(* The TLB, the walker and the table.                                        *)

\* The mark is off while the table is as it was, or goes off with an sfence.vma.
LEMMA RemapsIs ==
  ASSUME TypeOK, Sound, ~Abandoned, Clock, ~remaps'
  PROVE  (~remaps /\ table' = table) \/ st = "flush_tlb"
<1>1. remaps' = IF "tlb_flush_done" \in says' THEN FALSE ELSE remaps \/ table' # table
  BY DEF Clock, History
<1>2. "tlb_flush_done" \in says' => st = "flush_tlb"
  <2>1. st \in DataProcs => "tlb_flush_done" \notin says'
    BY DataEffect DEF GoesOn, Answers
  <2>2. st = "page_table_walk" => "tlb_flush_done" \notin says'
    BY WalkEffect DEF WalksOn, WalkEnds
  <2>3. st = "flush_cache" => "tlb_flush_done" \notin says'
    BY FlushEffect DEF Answers
  <2>4. st = "idle" => "tlb_flush_done" \notin says'
    BY IdleEffect DEF BeginsAt, Starts, Answers, Translates, WalksFor
  <2> QED BY <2>1, <2>2, <2>3, <2>4 DEF TypeOK, Procedures, DataProcs, Reading, Writing
<1> QED BY <1>1, <1>2, Zenon

LEMMA MappingKept ==
  ASSUME table' = table
  PROVE  /\ \A page : Mapping(page)' = Mapping(page)
         /\ TableMissing' = TableMissing
<1> QED BY DEF Mapping, TableMissing

\* What the walker has found is what the table says of the page.
LEMMA FoundIs ==
  ASSUME TypeOK, Sound, WalkOK, ~remaps, ~Abandoned, walker.st = "check"
  PROVE  /\ arg.page \in Pages
         /\ PteValid => [pte |-> walker.pte, level |-> walker.level] \in Mapping(arg.page)
         /\ PageFault => Mapping(arg.page) = {}
<1>1. arg.page \in Pages
  BY DEF Sound, ArgOK, Abandoned
<1>2. CASE walker.level = 1
  <2>1. walker.pte = table.root
    BY <1>2 DEF WalkOK
  <2>2. PteValid => [pte |-> walker.pte, level |-> walker.level] \in Mapping(arg.page)
    BY <1>1, <1>2, <2>1, MappingIs DEF PteValid
  <2>3. PageFault => Mapping(arg.page) = {}
    BY <1>1, <1>2, <2>1, MappingIs DEF PageFault
  <2> QED BY <1>1, <2>2, <2>3
<1>3. CASE walker.level = 0
  <2>1. /\ walker.pte = table.leaf[arg.page]
        /\ IsPointer(table.root, 1) /\ walker.at.frame = table.root.to
    BY <1>3 DEF WalkOK
  <2>2. table.root.to \in Ram
    BY <1>1, <1>3, <2>1, Names DEF Sound, WalkerOK, Missing
  <2>3. ~IsLeaf(table.root, 1)
    BY <2>1 DEF IsPointer, IsLeaf
  <2>4. PteValid => [pte |-> walker.pte, level |-> walker.level] \in Mapping(arg.page)
    BY <1>1, <1>3, <2>1, <2>2, MappingIs DEF PteValid, IsLeaf
  <2>5. PageFault => Mapping(arg.page) = {}
    <3>1. PageFault => "v" \notin table.leaf[arg.page].flags
      BY <1>3, <2>1 DEF PageFault, IsLeaf
    <3> QED BY <1>1, <2>3, <3>1, MappingIs
  <2> QED BY <1>1, <2>4, <2>5
<1> QED BY <1>2, <1>3 DEF Sound, WalkerOK

\* A page is in the TLB once, as the table has it.
LEMMA LookedIs ==
  ASSUME TypeOK, TlbOK, ~remaps, NEW page \in Pages
  PROVE  /\ Looked(page) \subseteq Mapping(page)
         /\ Looked(page) # {} => Looked(page) = Mapping(page)
<1> DEFINE hits == {[pte |-> e.pte, level |-> e.level] : e \in {h \in dtlb : h.page = page}}
<1>1. hits \subseteq Mapping(page)
  BY DEF TlbOK
<1>2. \A m, n \in Mapping(page) : m = n
  <2>1. ~(IsPointer(table.root, 1) /\ IsLeaf(table.root, 1))
    BY DEF IsPointer, IsLeaf
  <2> QED BY <2>1, MappingIs
<1>3. Cardinality(hits) <= 1
  <2>1. CASE hits = {}
    BY <2>1, FS_EmptySet
  <2>2. CASE hits # {}
    <3>1. PICK m : m \in hits
      BY <2>2
    <3> HIDE DEF hits
    <3>2. hits = {m}
      BY <1>1, <1>2, <3>1
    <3>3. Cardinality(hits) = 1
      BY <3>2, FS_Singleton
    <3> QED BY <3>3
  <2> QED BY <2>1, <2>2
<1>4. Looked(page) = hits
  BY <1>3 DEF Looked
<1> HIDE DEF hits
<1> QED BY <1>1, <1>2, <1>4

LEMMA TlbStep ==
  ASSUME TypeOK, Sound, TlbOK, WalkOK, ~Abandoned, Clock
  PROVE  TlbOK'
<1> SUFFICES ASSUME ~remaps', NEW e \in dtlb'
             PROVE  [pte |-> e.pte, level |-> e.level] \in Mapping(e.page)'
  BY DEF TlbOK
<1>1. CASE st = "flush_tlb"
  BY <1>1, FlushEffect
<1>2. CASE st # "flush_tlb"
  <2>1. ~remaps /\ table' = table
    BY <1>2, RemapsIs
  <2>2. [pte |-> e.pte, level |-> e.level] \in Mapping(e.page)
    <3>1. CASE e \in dtlb
      BY <2>1, <3>1 DEF TlbOK
    <3>2. CASE e \notin dtlb
      <4>1. dtlb' # dtlb
        BY <3>2
      <4>2. st = "page_table_walk"
        BY <1>2, <4>1, DataEffect, FlushEffect, IdleEffect DEF TypeOK, Procedures, DataProcs, Reading, Writing
      <4>3. PteValid /\ dtlb' \in Refilled([page |-> arg.page, pte |-> walker.pte, level |-> walker.level])
        BY <4>1, <4>2, WalkEffect DEF WalksOn
      <4>4. e = [page |-> arg.page, pte |-> walker.pte, level |-> walker.level]
        BY <3>2, <4>3 DEF Refilled
      <4> QED BY <2>1, <4>3, <4>4, FoundIs DEF PteValid
    <3> QED BY <3>1, <3>2
  <2> QED BY <2>1, <2>2, MappingKept
<1> QED BY <1>1, <1>2

LEMMA WalkStep ==
  ASSUME TypeOK, Sound, WalkOK, ~Abandoned, Clock, ~Abandoned'
  PROVE  WalkOK'
<1> SUFFICES ASSUME walker'.st # "idle", ~remaps'
             PROVE  /\ walker'.level = 0 => IsPointer(table.root, 1)' /\ walker'.at.frame = table'.root.to
                    /\ walker'.st = "check" =>
                         walker'.pte = IF walker'.level = 1 THEN table'.root ELSE table'.leaf[arg'.page]
  BY DEF WalkOK
<1>1. st = "page_table_walk"
  BY UnitIs, WalkerRests DEF Clock
<1>2. ~remaps /\ table' = table
  BY <1>1, RemapsIs
<1>3. WalksOn
  BY <1>1, WalkEffect DEF WalkEnds, Abandoned, WalkerIdle, Walking
<1>4. IsPointer(table.root, 1)' = IsPointer(table.root, 1)
  BY <1>2 DEF IsPointer
<1>5. CASE walker' = walker
  BY <1>2, <1>3, <1>4, <1>5 DEF WalkOK, WalksOn
<1>6. CASE walker' = Walking("walk", 1, Place("root", NoFrame), arg.page, NoPte)
  BY <1>6 DEF Walking
<1>7. CASE /\ walker.st = "walk" /\ dcache.at = walker.at /\ ~Missing(walker.at)
           /\ walker' = [walker EXCEPT !.st = "check", !.pte = Word]
  <2>1. Word = IF walker.level = 1 THEN table.root ELSE table.leaf[arg.page]
    BY <1>7, WordIs
  <2>2. /\ walker'.st = "check" /\ walker'.pte = Word /\ walker'.level = walker.level
        /\ walker'.at = walker.at
    BY <1>7 DEF TypeOK
  <2> QED BY <1>2, <1>3, <1>4, <1>7, <2>1, <2>2 DEF WalkOK, WalksOn
<1>8. CASE /\ walker.st = "check" /\ IsPointer(walker.pte, walker.level)
           /\ walker' = Walking("walk", walker.level - 1,
                                Place(walker.page, walker.pte.to), NoPage, NoPte)
  <2>1. walker.level = 1
    BY <1>8 DEF Sound, WalkerOK, IsPointer
  <2>2. walker.pte = table.root
    BY <1>2, <1>8, <2>1 DEF WalkOK
  <2> QED BY <1>2, <1>4, <1>8, <2>1, <2>2 DEF Walking, Place
<1> QED BY <1>1, <1>3, <1>5, <1>6, <1>7, <1>8, WalkEffect DEF WalkerIdle, Walking

-----------------------------------------------------------------------------
(* The request and its target.                                               *)

\* translate grants what the architecture allows.
LEMMA GrantsIs ==
  ASSUME TypeOK, NEW kind \in Accesses, NEW pte, "v" \in pte.flags
  PROVE  Grants(pte, kind) <=> Allowed(kind, pte)
<1>1. mode.user \in BOOLEAN /\ mode.sum \in BOOLEAN /\ mode.mxr \in BOOLEAN
  BY LoadStoreUnitAssumption DEF TypeOK
<1>2. UserBit(pte) <=> (("u" \in pte.flags) = mode.user \/ ("u" \in pte.flags /\ mode.sum))
  <2>1. \A u, mu, ms \in BOOLEAN :
          (IF u THEN mu \/ ms ELSE ~mu) <=> ((u = mu) \/ (u /\ ms))
    OBVIOUS
  <2>2. ("u" \in pte.flags) \in BOOLEAN
    OBVIOUS
  <2>3. (IF "u" \in pte.flags THEN mode.user \/ mode.sum ELSE ~mode.user)
          <=> (("u" \in pte.flags) = mode.user \/ ("u" \in pte.flags /\ mode.sum))
    BY <1>1, <2>1, <2>2, Zenon
  <2> QED BY <2>3, Zenon DEF UserBit
<1>3. CASE kind \in Loads
  <2>1. Needed(kind) \subseteq pte.flags <=> "a" \in pte.flags
    BY <1>3 DEF Needed
  <2> QED BY <1>2, <1>3, <2>1, Zenon DEF Grants, Allowed
<1>4. CASE kind \notin Loads
  <2>1. Needed(kind) \subseteq pte.flags <=> "a" \in pte.flags /\ {"r", "w", "d"} \subseteq pte.flags
    BY <1>4 DEF Needed
  <2>2. {"r", "w", "d"} \subseteq pte.flags => "r" \in pte.flags
    OBVIOUS
  <2> QED BY <1>2, <1>4, <2>1, <2>2, Zenon DEF Grants, Allowed
<1> QED BY <1>3, <1>4

LEMMA RequestPage ==
  ASSUME TypeOK, req.kind \in Accesses
  PROVE  req # NoReq /\ req.page \in Pages
<1> QED BY DEF TypeOK, Reqs, Accesses, Loads, Writes, Flushes, NoReq

\* Where an access begins is where the table puts it; one that is not granted
\* has no target.
LEMMA ReachesTarget ==
  ASSUME TypeOK, TlbOK, req.kind \in Accesses, mode.sv32 => ~remaps
  PROVE  /\ \A frame : Reaches(frame) => frame \in Target
         /\ ~remaps /\ mode.sv32 /\ (\E e \in Looked(req.page) : ~Grants(e.pte, req.kind))
              => Target = {} /\ Mapping(req.page) # {}
<1>1. req.page \in Pages
  BY RequestPage
<1>2. \A m \in Mapping(req.page) : "v" \in m.pte.flags
  BY <1>1, MappingIs DEF IsLeaf
<1>3. CASE ~mode.sv32
  BY <1>3 DEF Reaches, Target
<1>4. CASE mode.sv32
  <2>1. /\ Looked(req.page) \subseteq Mapping(req.page)
        /\ Looked(req.page) # {} => Looked(req.page) = Mapping(req.page)
    BY <1>1, <1>4, LookedIs
  <2>2. \A m \in Mapping(req.page) : Grants(m.pte, req.kind) <=> Allowed(req.kind, m.pte)
    BY <1>2, GrantsIs
  <2>3. \A frame : Reaches(frame) => frame \in Target
    BY <1>4, <2>1, <2>2 DEF Reaches, Target
  <2>4. \A m, n \in Mapping(req.page) : m = n
    <3>1. ~(IsPointer(table.root, 1) /\ IsLeaf(table.root, 1))
      BY DEF IsPointer, IsLeaf
    <3> QED BY <1>1, <3>1, MappingIs
  <2>5. ASSUME NEW e \in Looked(req.page), ~Grants(e.pte, req.kind)
        PROVE  Target = {} /\ Mapping(req.page) # {}
    <3>1. e \in Mapping(req.page)
      BY <2>1
    <3>2. \A m \in Mapping(req.page) : ~Allowed(req.kind, m.pte)
      BY <2>2, <2>4, <2>5, <3>1
    <3> QED BY <1>4, <3>1, <3>2 DEF Target
  <2> QED BY <2>3, <2>5
<1> QED BY <1>3, <1>4

LEMMA MovedIs ==
  ASSUME Clock, req # NoReq, says' = {}, ~moved'
  PROVE  ~moved /\ mode' = mode /\ req' = req
<1>1. Stays /\ req' = req
  BY StaysIs
<1>2. moved' = (Stays /\ (moved \/ mode' # mode))
  BY DEF Clock, History
<1> QED BY <1>1, <1>2, Zenon

LEMMA MovedStep ==
  ASSUME Clock
  PROVE  MovedOK'
<1>1. moved' = (Stays /\ (moved \/ mode' # mode))
  BY DEF Clock, History
<1>2. Stays => req' = req /\ req # NoReq
  BY DEF Clock, MemoryStage, Stays
<1> QED BY <1>1, <1>2, Zenon DEF MovedOK

\* The target of a request stays while nothing moves it.
LEMMA TargetKept ==
  ASSUME TypeOK, req' = req, mode' = mode, mode.sv32 => table' = table
  PROVE  Target' = Target
<1>1. CASE mode.sv32
  <2>1. \A page : Mapping(page)' = Mapping(page)
    BY <1>1, MappingKept
  <2>2. \A kind, pte : Allowed(kind, pte)' <=> Allowed(kind, pte)
    BY DEF Allowed
  <2> QED BY <1>1, <2>1, <2>2 DEF Target
<1>2. CASE ~mode.sv32
  BY <1>2 DEF Target
<1> QED BY <1>1, <1>2

LEMMA TargetStep ==
  ASSUME TypeOK, Sound, TlbOK, TargetOK, ~Abandoned, Clock
  PROVE  TargetOK'
<1> SUFFICES ASSUME st' \in DataProcs, ~moved', mode'.sv32 => ~remaps'
             PROVE  arg'.frame \in Target'
  BY DEF TargetOK, Settled
<1>1. st = "idle" \/ st \in DataProcs
  <2>1. st \in {"flush_cache", "flush_tlb"} => st' \notin DataProcs
    BY FlushEffect DEF Answers, DataProcs, Reading, Writing
  <2>2. st = "page_table_walk" => st' \notin DataProcs
    BY WalkEffect DEF WalksOn, WalkEnds, DataProcs, Reading, Writing
  <2> QED BY <2>1, <2>2 DEF TypeOK, Procedures, DataProcs, Reading, Writing
<1>2. /\ req # NoReq /\ says' = {}
      /\ \/ st \in DataProcs /\ arg'.frame = arg.frame
         \/ req.kind \in Accesses /\ Reaches(arg'.frame)
  <2>1. CASE st \in DataProcs
    <3>1. req # NoReq
      BY <2>1 DEF Sound, HeldOK, DataProcs, Reading, Writing, NoReq, Loads
    <3> QED BY <2>1, <3>1, DataEffect DEF GoesOn, Answers, DataProcs, Reading, Writing
  <2>2. CASE st = "idle"
    <3>1. PICK frame : req.kind \in Accesses /\ Reaches(frame) /\ BeginsAt(frame)
      BY <2>2, IdleEffect DEF Translates, WalksFor, Walk, DataProcs, Reading, Writing
    <3>2. says' = {} /\ arg'.frame = frame
      BY <3>1 DEF BeginsAt, Starts, Answers, DataProcs, Reading, Writing
    <3> QED BY <3>1, <3>2, RequestPage
  <2> QED BY <1>1, <2>1, <2>2
<1>3. ~moved /\ mode' = mode /\ req' = req
  BY <1>2, MovedIs
<1>4. mode.sv32 => ~remaps /\ table' = table
  BY <1>1, <1>3, RemapsIs DEF DataProcs, Reading, Writing
<1>5. Target' = Target
  BY <1>3, <1>4, TargetKept
<1>6. arg'.frame \in Target
  BY <1>2, <1>3, <1>4, ReachesTarget DEF TargetOK, Settled
<1> QED BY <1>5, <1>6

\* The fetch unit asks for the same page until it is answered.
LEMMA FetchKept ==
  ASSUME TypeOK, Clock, fetch # NoPage, says' \cap {"pte_ready", "tlb_page_fault"} = {}
  PROVE  fetch' = fetch
<1> QED BY DEF Clock, FetchUnit

LEMMA PurposeStep ==
  ASSUME TypeOK, Sound, TlbOK, PurposeOK, MovedOK, ~Abandoned, Clock
  PROVE  PurposeOK'
<1> SUFFICES ASSUME st' = "page_table_walk"
             PROVE  /\ arg'.op = "fetch" => fetch' = arg'.page
                    /\ arg'.op # "fetch" /\ ~remaps' /\ ~moved' =>
                         \/ /\ req'.kind \in Accesses /\ req'.page = arg'.page
                            /\ PtwOp(req'.kind) = arg'.op /\ mode'.sv32
                         \/ Mapping(arg.page)' # {}
  BY DEF PurposeOK, PtwOp
<1>1. st = "idle" \/ st = "page_table_walk"
  <2>1. st \in {"flush_cache", "flush_tlb"} => st' # "page_table_walk"
    BY FlushEffect DEF Answers
  <2>2. st \in DataProcs => st' # "page_table_walk"
    BY DataEffect DEF GoesOn, Answers, DataProcs, Reading, Writing
  <2> QED BY <2>1, <2>2 DEF TypeOK, Procedures, DataProcs, Reading, Writing
<1>2. ~remaps' => ~remaps /\ table' = table
  BY <1>1, RemapsIs
<1>3. \A page : table' = table => Mapping(page)' = Mapping(page)
  BY MappingKept
<1>4. CASE st = "page_table_walk"
  <2>1. UNCHANGED arg /\ says' = {}
    BY <1>4, WalkEffect DEF WalksOn, WalkEnds
  <2>2. ASSUME arg'.op = "fetch" PROVE fetch' = arg'.page
    <3>1. fetch = arg.page /\ fetch # NoPage
      BY <1>4, <2>1, <2>2, Names DEF PurposeOK, Sound, ArgOK, NoPage
    <3> QED BY <2>1, <3>1, FetchKept
  <2>3. ASSUME arg'.op # "fetch", ~remaps', ~moved'
        PROVE  \/ /\ req'.kind \in Accesses /\ req'.page = arg'.page
                  /\ PtwOp(req'.kind) = arg'.op /\ mode'.sv32
               \/ Mapping(arg.page)' # {}
    <3>1. Mapping(arg.page)' = Mapping(arg.page)
      BY <1>2, <2>1, <2>3 DEF Mapping
    <3>2. ~moved
      BY <2>1, <2>3, MovedIs DEF MovedOK
    <3>3. \/ /\ req.kind \in Accesses /\ req.page = arg.page
             /\ PtwOp(req.kind) = arg.op /\ mode.sv32
          \/ Mapping(arg.page) # {}
      BY <1>2, <1>4, <2>1, <2>3, <3>2 DEF PurposeOK
    <3>4. req.kind \in Accesses => req' = req /\ mode' = mode
      BY <2>1, <2>3, MovedIs, RequestPage
    <3> QED BY <2>1, <3>1, <3>3, <3>4
  <2> QED BY <2>2, <2>3
<1>5. CASE st = "idle"
  <2>1. CASE Translates
    <3>1. arg'.op = PtwOp(req.kind) /\ arg'.page = req.page /\ arg'.op # "fetch"
      BY <2>1 DEF Translates, WalksFor, Walk, PtwOp
    <3>2. CASE Looked(req.page) = {} /\ says' = {} /\ req' = req
      <4>1. ~moved' => mode' = mode
        BY <2>1, <3>2, MovedIs, RequestPage DEF Translates
      <4> QED BY <2>1, <3>1, <3>2, <4>1 DEF Translates
    <3>3. CASE \E e \in Looked(req.page) : ~Grants(e.pte, req.kind)
      <4>1. ~remaps => Mapping(req.page) # {}
        BY <2>1, <3>3, ReachesTarget DEF Translates
      <4>2. table' = table => Mapping(arg.page)' = Mapping(req.page)
        BY <3>1 DEF Mapping
      <4> QED BY <1>2, <3>1, <4>1, <4>2
    <3> QED BY <2>1, <3>2, <3>3 DEF Translates, WalksFor
  <2>2. CASE fetch # NoPage /\ WalksFor("fetch", fetch, {})
    <3>1. arg'.op = "fetch" /\ arg'.page = fetch /\ says' = {}
      BY <2>2 DEF WalksFor, Walk
    <3> QED BY <2>2, <3>1, FetchKept
  <2> QED BY <1>5, <2>1, <2>2, IdleEffect DEF BeginsAt, Starts, Answers
<1> QED BY <1>1, <1>4, <1>5

-----------------------------------------------------------------------------
Steadfast == Steady /\ (Abandoned \/ Faithful)

LEMMA SteadfastAlways == Spec => []Steadfast
<1>1. Init => Abandoned \/ Faithful
  <2> SUFFICES ASSUME Init PROVE Faithful
    OBVIOUS
  <2>1. walker.st = "idle"
    BY DEF Init, WalkerIdle, Walking
  <2> QED BY <2>1 DEF Init, Faithful, TlbOK, WalkOK, TargetOK, PurposeOK, MovedOK,
                      DataProcs, Reading, Writing
<1>2. Steady /\ (Abandoned \/ Faithful) /\ [Next]_vars => (Abandoned \/ Faithful)'
  <2> SUFFICES ASSUME Steady, Abandoned \/ Faithful, [Next]_vars
               PROVE  (Abandoned \/ Faithful)'
    OBVIOUS
  <2>1. CASE Clock
    <3>1. TypeOK /\ Sound /\ ~Abandoned /\ Faithful
      BY <2>1 DEF Steady, Clock
    <3>2. ~Abandoned' => Faithful'
      BY <2>1, <3>1, TlbStep, WalkStep, TargetStep, PurposeStep, MovedStep DEF Faithful
    <3> QED BY <3>2
  <2>2. CASE UNCHANGED vars
    <3>1. Abandoned' = Abandoned
      BY <2>2 DEF Abandoned, vars, unit
    <3>2. Faithful => Faithful'
      BY <2>2 DEF Faithful, TlbOK, WalkOK, TargetOK, PurposeOK, MovedOK, vars, unit, client,
                  Mapping, IsPointer, Settled, Target, Allowed
    <3> QED BY <3>1, <3>2
  <2> QED BY <2>1, <2>2 DEF Next, Lost
<1> QED BY <1>1, <1>2, SteadyAlways, PTL DEF Spec, Steadfast

-----------------------------------------------------------------------------
(* A request that is answered has made exactly the accesses it asks for,     *)
(* where the table, as it stood at the last sfence.vma, puts its page, and   *)
(* is allowed to; a store conditional stores just when the last answered lr  *)
(* was for the same place and no sc came between.                            *)
THEOREM AnswersAreRight == Spec => AnswersRight
<1>1. ASSUME Steadfast, Clock, req.kind \in Accesses, "ready" \in says', Settled
      PROVE  \E frame \in Target : made \o Completed = AccessesAt(req.kind, frame)
  <2>1. TypeOK /\ Sound /\ ~Abandoned /\ Faithful
    BY <1>1 DEF Steadfast, Steady, Clock
  <2>2. \A x : <<>> \o <<x>> = <<x>>
    OBVIOUS
  <2>3. \A x, y : <<x>> \o <<y>> = <<x, y>>
    <3> TAKE x, y
    <3>1. <<x>> \in Seq({x, y}) /\ <<y>> \in Seq({x, y}) /\ <<x, y>> \in Seq({x, y})
      OBVIOUS
    <3>2. Len(<<x>> \o <<y>>) = 2 /\ (<<x>> \o <<y>>)[1] = x /\ (<<x>> \o <<y>>)[2] = y
      BY <3>1
    <3>3. <<x>> \o <<y>> \in Seq({x, y})
      BY <3>1
    <3>4. Len(<<x, y>>) = 2 /\ <<x, y>>[1] = x /\ <<x, y>>[2] = y
      OBVIOUS
    <3>5. \A i \in 1..Len(<<x>> \o <<y>>) : (<<x>> \o <<y>>)[i] = <<x, y>>[i]
      BY <3>2, <3>4
    <3> QED BY <3>1, <3>2, <3>3, <3>4, <3>5, SeqEqual, Zenon
  <2>4. made = IF st \in {"amo_alu_op", "amo_writeback"} THEN At("read") ELSE <<>>
    BY <2>1 DEF Sound, HeldOK, At
  <2>5. CASE st \in DataProcs
    <3>1. arg.frame \in Target
      BY <1>1, <2>1, <2>5 DEF Faithful, TargetOK
    <3>2. CASE st = "cacheable_read"
      <4>1. Completed = At("read") /\ req.kind \in Loads
        BY <1>1, <2>1, <2>5, <3>2, DataEffect DEF GoesOn, Answers, Sound, HeldOK, Writing
      <4>2. made \o Completed = AccessesAt(req.kind, arg.frame)
        BY <2>2, <2>4, <3>2, <4>1 DEF At, AccessesAt, Loads
      <4> QED BY <3>1, <4>2
    <3>3. CASE st = "cacheable_write"
      <4>1. Completed = At("write") /\ arg.frame \in Ram /\ req.kind \in {"store", "sc"}
        BY <1>1, <2>1, <2>5, <3>3, DataEffect DEF GoesOn, Answers, Sound, HeldOK, Writing
      <4>2. req.kind = "sc" => linked = arg.frame
        BY <2>1, <3>3, <4>1 DEF Sound, LinkedOK
      <4>3. made \o Completed = At("write")
        BY <2>2, <2>4, <3>3, <4>1 DEF At
      <4>4. AccessesAt(req.kind, arg.frame) = At("write")
        BY <4>1, <4>2 DEF At, AccessesAt, Loads
      <4> QED BY <3>1, <4>3, <4>4
    <3>4. CASE st \in {"amo_read", "amo_alu_op", "amo_writeback"}
      <4>1. st = "amo_writeback" /\ Completed = At("write") /\ req.kind = "amo"
        BY <1>1, <2>1, <2>5, <3>4, DataEffect DEF GoesOn, Answers, Sound, HeldOK, Writing
      <4>2. made \o Completed = AccessesAt(req.kind, arg.frame)
        BY <2>3, <2>4, <4>1 DEF At, AccessesAt, Loads
      <4> QED BY <3>1, <4>2
    <3> QED BY <2>5, <3>2, <3>3, <3>4 DEF DataProcs, Reading, Writing
  <2>6. CASE st = "idle"
    <3>1. PICK frame : Reaches(frame) /\ BeginsAt(frame)
      BY <1>1, <2>1, <2>6, IdleEffect, RequestPage DEF Translates, WalksFor
    <3>2. req.kind = "sc" /\ reservation # frame
      BY <1>1, <3>1 DEF BeginsAt, Starts
    <3>3. Completed = <<>> /\ made = <<>>
      BY <1>1, <2>1, <2>4, <2>6, IdleEffect
    <3>4. linked # frame
      BY <2>1, <2>6, <3>1, <3>2, Names DEF Sound, LinkedOK, Reaches
    <3>5. frame \in Target
      BY <1>1, <2>1, <3>1, ReachesTarget DEF Faithful, Settled
    <3>6. made \o Completed = AccessesAt(req.kind, frame)
      BY <3>2, <3>3, <3>4 DEF AccessesAt, Loads
    <3> QED BY <3>5, <3>6
  <2>7. st # "page_table_walk"
    BY <1>1, <2>1, WalkEffect DEF WalksOn, WalkEnds
  <2>8. st \notin {"flush_cache", "flush_tlb"}
    BY <1>1, <2>1, FlushEffect DEF Answers
  <2> QED BY <2>1, <2>5, <2>6, <2>7, <2>8 DEF TypeOK, Procedures, DataProcs, Reading, Writing
<1>2. Steadfast /\ [Next]_vars =>
        [req.kind \in Accesses /\ "ready" \in says' /\ Settled =>
           \E frame \in Target : made \o Completed = AccessesAt(req.kind, frame)]_vars
  BY <1>1 DEF Next, Lost
<1> QED BY <1>2, SteadfastAlways, PTL DEF Spec, AnswersRight

\* The faults of a clock have a reason in the request and the table.
FaultsRight ==
  /\ "load_page_fault" \in says' => req.kind \in Loads /\ Target = {}
  /\ "store_amo_page_fault" \in says' => req.kind \in Writes /\ Target = {}
  /\ "store_amo_access_fault" \in says' =>
       req.kind \in Writes /\ \E frame \in Target : frame \notin Ram
  /\ "load_access_fault" \in says' =>
       TableMissing \/ (req.kind \in Loads /\ \E frame \in Target : frame \notin Ram)
  /\ "pte_ready" \in says' => Looked(fetch) = Mapping(fetch)
  /\ "tlb_page_fault" \in says' => fetch # NoPage /\ Mapping(fetch) = {}
  /\ "tlb_access_fault" \in says' => TableMissing

LEMMA FaultsByIdle ==
  ASSUME TypeOK, Sound, Faithful, ~Abandoned, Clock, Settled, ~remaps, st = "idle"
  PROVE  FaultsRight
<1>1. CASE Translates
  <2>1. req.kind \in Accesses /\ mode.sv32
    BY <1>1 DEF Translates
  <2>2. CASE says' = {}
    BY <2>2 DEF FaultsRight
  <2>3. CASE /\ \E e \in Looked(req.page) : ~Grants(e.pte, req.kind)
             /\ says' = {IF req.kind \in Loads THEN "load_page_fault" ELSE "store_amo_page_fault"}
    <3>1. Target = {}
      BY <2>1, <2>3, ReachesTarget DEF Faithful
    <3> QED BY <2>1, <2>3, <3>1 DEF FaultsRight, Accesses
  <2> QED BY <1>1, <2>2, <2>3 DEF Translates, WalksFor
<1>2. CASE fetch # NoPage /\ Looked(fetch) # {} /\ says' = {"pte_ready"}
  <2>1. fetch \in Pages
    BY <1>2 DEF TypeOK
  <2> QED BY <1>2, <2>1, LookedIs DEF Faithful, FaultsRight
<1>3. CASE says' = {} \/ says' = {"ready"}
  BY <1>3 DEF FaultsRight
<1> QED BY <1>1, <1>2, <1>3, IdleEffect DEF BeginsAt, Starts, Answers, WalksFor

LEMMA FaultsByData ==
  ASSUME TypeOK, Sound, Faithful, ~Abandoned, Clock, Settled, st \in DataProcs
  PROVE  FaultsRight
<1>1. arg.frame \in Target
  BY DEF Faithful, TargetOK
<1>2. CASE says' = {} \/ says' = {"ready"}
  BY <1>2 DEF FaultsRight
<1>3. CASE st = "cacheable_read" /\ arg.frame \notin Ram /\ says' = {"load_access_fault"}
  BY <1>1, <1>3 DEF FaultsRight, Sound, HeldOK
<1>4. CASE /\ st \in Writing \cup {"amo_read"} /\ arg.frame \notin Ram
           /\ says' = {"store_amo_access_fault"}
  <2>1. req.kind \in Writes
    BY <1>4 DEF Sound, HeldOK, Writing, Writes
  <2> QED BY <1>1, <1>4, <2>1 DEF FaultsRight
<1> QED BY <1>2, <1>3, <1>4, DataEffect DEF GoesOn, Answers

LEMMA FaultsByWalk ==
  ASSUME TypeOK, Sound, Faithful, ~Abandoned, Clock, Settled, ~remaps, st = "page_table_walk"
  PROVE  FaultsRight
<1>1. arg.page \in Pages /\ arg.op \in {"load", "store", "fetch"}
  BY DEF Sound, ArgOK
<1>2. CASE says' = {}
  BY <1>2 DEF FaultsRight
<1>3. CASE /\ walker.st = "walk" /\ Missing(walker.at)
           /\ says' = {IF arg.op = "fetch" THEN "tlb_access_fault" ELSE "load_access_fault"}
  <2>1. walker.level = 0
    BY <1>3 DEF Sound, WalkerOK, Missing, Place
  <2>2. IsPointer(table.root, 1) /\ table.root.to \notin Ram
    BY <1>3, <2>1 DEF Faithful, WalkOK, Missing
  <2>3. TableMissing
    BY <2>2 DEF TableMissing, IsPointer
  <2> QED BY <1>3, <2>3 DEF FaultsRight
<1>4. CASE PageFault /\ says' = {CASE arg.op = "fetch" -> "tlb_page_fault"
                                   [] arg.op = "store" -> "store_amo_page_fault"
                                   [] OTHER            -> "load_page_fault"}
  <2>1. Mapping(arg.page) = {}
    BY <1>4, FoundIs DEF Faithful, PageFault
  <2>2. CASE arg.op = "fetch"
    <3>1. fetch = arg.page /\ fetch # NoPage
      BY <1>1, <2>2, Names DEF Faithful, PurposeOK, NoPage
    <3> QED BY <1>4, <2>1, <2>2, <3>1 DEF FaultsRight
  <2>3. CASE arg.op # "fetch"
    <3>1. req.kind \in Accesses /\ req.page = arg.page /\ PtwOp(req.kind) = arg.op /\ mode.sv32
      BY <2>1, <2>3 DEF Faithful, PurposeOK, Settled
    <3>2. Target = {}
      BY <2>1, <3>1 DEF Target
    <3>3. CASE req.kind \in Loads
      <4>1. says' = {"load_page_fault"}
        BY <1>4, <3>1, <3>3 DEF PtwOp
      <4> QED BY <3>2, <3>3, <4>1 DEF FaultsRight
    <3>4. CASE req.kind \notin Loads
      <4>1. says' = {"store_amo_page_fault"} /\ req.kind \in Writes
        BY <1>4, <3>1, <3>4 DEF PtwOp, Accesses
      <4> QED BY <3>2, <4>1 DEF FaultsRight
    <3> QED BY <3>3, <3>4
  <2> QED BY <2>2, <2>3
<1> QED BY <1>2, <1>3, <1>4, WalkEffect DEF WalksOn, WalkEnds

(* Page faults are raised for requests that are there and that the table     *)
(* denies, access faults where there is no memory, and the fetch unit gets   *)
(* the entry of the page it asks for.                                        *)
THEOREM FaultsAreReal == Spec => FaultsReal
<1>1. ASSUME Steadfast, Clock, Settled, ~remaps
      PROVE  FaultsRight
  <2>1. TypeOK /\ Sound /\ ~Abandoned /\ Faithful
    BY <1>1 DEF Steadfast, Steady, Clock
  <2>2. CASE st \in {"flush_cache", "flush_tlb"}
    BY <1>1, <2>1, <2>2, FlushEffect DEF FaultsRight, Answers
  <2> QED BY <1>1, <2>1, <2>2, FaultsByIdle, FaultsByData, FaultsByWalk
          DEF TypeOK, Procedures, DataProcs, Reading, Writing
<1>2. Steadfast /\ [Next]_vars => [Settled /\ ~remaps => FaultsRight]_vars
  BY <1>1 DEF Next, Lost
<1> QED BY <1>2, SteadfastAlways, PTL DEF Spec, FaultsReal, FaultsRight
=============================================================================
