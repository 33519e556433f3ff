----------------------- MODULE UpdateTransaction_proofs -----------------------
(***************************************************************************)
(* Proofs about UpdateTransaction, for any set of runs: its safety         *)
(* properties, and that its executing commands implement Replacement.      *)
(***************************************************************************)
EXTENDS UpdateTransaction, FiniteSetTheorems, TLAPS

-----------------------------------------------------------------------------
(* The invariant, about what each run has and which of its roles run.      *)

Held   == [r \in Runs |-> Of(r)]
Served == [r \in Runs |-> UpRoles(r)]

\* What a rollback may replace in the record of the previous run.
Replaceable == Reviewed \cup {"seeder"}
Fixed(m)    == m.prevRes \ Replaceable

OneGateway(res) == \E g \in Reviewed : res \cap Reviewed = {g}
Whole(res)      == Deployed \subseteq res /\ "seeder" \notin res /\ OneGateway(res)

Only(r, res) == Held[r] = res /\ \A q \in Runs \ {r} : Held[q] = {}

\* Nothing exists but of the two runs, and of the previous one nothing but what
\* is recorded for it or replaceable.
Owned(m) ==
    /\ \A r \in Runs \ {m.prev, m.cand} : Held[r] = {}
    /\ Held[m.prev] \subseteq m.prevRes \cup Replaceable

TypeInv == TypeOK /\ running \subseteq Runs \X Startable

PortInv ==
    \A r, q \in Runs : \A g \in Held[r] \cap Reviewed, h \in Held[q] \cap Reviewed :
        r = q /\ g = h

JournalInv ==
    jr # NoJournal =>
        /\ Owned(jr)
        /\ Deployed \subseteq jr.prevRes /\ OneGateway(jr.prevRes)
        /\ Served[jr.prev] \subseteq jr.roles
        /\ jr.phase # "ready" => Fixed(jr) \subseteq Held[jr.prev]

\* The command's journal differs from the file in what it has not saved yet.
MemoryInv ==
    /\ pc = "idle" => mem = NoJournal
    /\ pc # "idle" =>
          /\ jr # NoJournal /\ mem # NoJournal
          /\ mem.phase = jr.phase /\ mem.roles = jr.roles
          /\ mem.prev = jr.prev /\ mem.cand = jr.cand
          /\ Fixed(mem) = Fixed(jr) /\ OneGateway(mem.prevRes)

SteadyInv ==
    jr = NoJournal =>
        /\ Only(disk.run, disk.res)
        /\ cmd # "clean" => Whole(disk.res)

Staging    == Creating \cup {"created", "unseeded"}
Cutting    == {"closeTemporary", "closed", "closeOld", "openFinal", "opened",
               "startFinal", "verify", "settle"}
Completing == {"publish", "retire"}
Giving     == {"abandon", "abandoned", "abandoning"}

Prefixes == {{}, {"base"}, {"base", "seeder"}, {"base", "seeder", "app"},
             {"base", "seeder", "app", "temporary"}}

\* What the candidate has at each step.
CandidateHas(step, res) ==
    /\ step \in {"create", "created"} => res \in Prefixes
    /\ step = "unseed" => res = {"base", "seeder", "app", "temporary"}
    /\ step \in {"unseeded", "openTemporary", "smoke", "closeTemporary"} =>
          res = {"base", "app", "temporary"}
    /\ step \in {"closed", "closeOld", "openFinal"} => res = {"base", "app"}
    /\ step \in {"opened", "startFinal", "verify", "settle"} =>
          res = {"base", "app", "gateway"}

CandidateInv ==
    /\ pc \in Staging \cup Cutting \cup Giving => cmd = "update"
    /\ pc \in Staging \cup Giving => jr.phase = "staged"
    /\ pc \in Cutting => jr.phase = "cutover"
    /\ pc \in Staging \cup Cutting =>
          /\ Held[mem.cand] = mem.candRes /\ CandidateHas(pc, mem.candRes)
          /\ Held[mem.prev] \subseteq mem.prevRes
    /\ pc = "openFinal" => Held[mem.prev] \cap Reviewed = {}

CompletionInv ==
    /\ pc \in Completing \cup {"judge"} => jr.phase = "ready"
    /\ pc \in Completing =>
          /\ Held[mem.cand] = mem.candRes /\ Whole(mem.candRes)
          /\ Served[mem.cand] \subseteq mem.roles
    /\ pc = "retire" => disk = [run |-> mem.cand, res |-> mem.candRes]
    /\ pc = "forget" =>
          /\ Only(disk.run, disk.res)
          /\ Served[disk.run] \subseteq jr.roles
          /\ cmd # "clean" => Whole(disk.res)
          /\ disk.run = jr.cand => jr.phase = "ready"

Halting  == {"halting", "halted"}
Rolling  == {"oldGateway", "reopened", "roles", "halt", "startOld", "final"}
            \cup Reseeding
Cleaning == {"judge", "restore", "adopted", "oldSeeder", "dropped", "discard",
             "survive", "publish", "retire", "forget"}

\* When the candidate is gone, the record of the previous run is exact.
RollbackInv ==
    /\ cmd = "clean" /\ pc # "idle" => pc \in Cleaning
    /\ pc = "survive" => cmd = "clean"
    /\ pc = "discard" /\ cmd # "clean" => Deployed \subseteq Held[jr.prev]
    /\ pc \in Rolling \cup Halting \cup {"survive"} => Held[mem.cand] = {}
    /\ pc \in Rolling \cup {"survive"} => Held[mem.prev] \subseteq mem.prevRes
    /\ pc \in Reseeding => "app" \in mem.roles

IInv ==
    /\ TypeInv /\ PortInv /\ JournalInv /\ MemoryInv /\ SteadyInv
    /\ CandidateInv /\ CompletionInv /\ RollbackInv

-----------------------------------------------------------------------------
(* Sets of names.                                                          *)

LEMMA CompleteMeans ==
  ASSUME NEW res
  PROVE  Complete(res) <=> Whole(res)
<1> DEFINE G == res \cap Reviewed
<1>1. IsFiniteSet(Reviewed)
  <2>1. IsFiniteSet({"gateway"})
    BY FS_Singleton
  <2>2. IsFiniteSet({"gateway"} \cup {"again"})
    BY <2>1, FS_AddElement
  <2>3. Reviewed = {"gateway"} \cup {"again"}
    BY DEF Reviewed
  <2> QED
    BY <2>2, <2>3
<1>2. IsFiniteSet(G)
  BY <1>1, FS_Subset
<1>3. Cardinality(G) = 1 <=> \E g : G = {g}
  BY <1>2, FS_Singleton
<1>4. (\E g : G = {g}) <=> OneGateway(res)
  BY DEF OneGateway
<1> QED
  BY <1>3, <1>4 DEF Complete, Whole

-----------------------------------------------------------------------------
(* What a step does to the daemon.                                         *)

LEMMA View ==
  ASSUME TypeInv
  PROVE  /\ Held \in [Runs -> SUBSET Names]
         /\ Served \in [Runs -> SUBSET Roles]
<1>1. ASSUME NEW r \in Runs, NEW n \in Up(r) PROVE RoleOf(n) \in Roles
  <2>1. n \in Startable
    BY <1>1 DEF TypeInv, Up
  <2> QED
    BY <2>1 DEF RoleOf, Startable, Roles, Gateways, Reviewed
<1> QED
  BY <1>1 DEF Held, Of, Served, UpRoles

\* Membership, which is all that the steps are about.
LEMMA Members ==
  ASSUME TypeInv
  PROVE  /\ \A r \in Runs, n \in Names : n \in Held[r] <=> <<r, n>> \in objs
         /\ \A r \in Runs : \A x : x \in Served[r] <=>
               \E n \in Names : <<r, n>> \in running /\ x = RoleOf(n)
BY DEF Held, Of, Served, UpRoles, Up

LEMMA Nothing ==
  ASSUME UNCHANGED dockerVars
  PROVE  UNCHANGED <<Held, Served>>
BY DEF dockerVars, Held, Of, Served, UpRoles, Up

LEMMA Creation ==
  ASSUME TypeInv, NEW r \in Runs, NEW n \in Names, Create(r, n)
  PROVE  /\ Held' = [Held EXCEPT ![r] = @ \cup {n}]
         /\ Served' = Served
         /\ objs' \subseteq Runs \X Names /\ running' \subseteq objs'
<1>1. \A q \in Runs : Of(q)' = IF q = r THEN Of(q) \cup {n} ELSE Of(q)
  BY DEF Create, Of
<1>2. Held' = [Held EXCEPT ![r] = @ \cup {n}]
  BY <1>1 DEF Held
<1>3. Served' = Served
  BY DEF Create, Served, UpRoles, Up
<1> QED
  BY <1>2, <1>3 DEF Create, TypeInv, TypeOK

\* Objects and containers may go.
LEMMA Loss ==
  ASSUME TypeInv, running' \subseteq running
  PROVE  \A q \in Runs : Served'[q] \subseteq Served[q]
BY DEF Served, UpRoles, Up

LEMMA Removal ==
  ASSUME TypeInv, NEW r \in Runs, NEW n \in Names, Remove(r, n)
  PROVE  /\ Held' = [Held EXCEPT ![r] = @ \ {n}]
         /\ \A q \in Runs : Served'[q] \subseteq Served[q]
         /\ objs' \subseteq Runs \X Names /\ running' \subseteq objs'
<1>1. \A q \in Runs : Of(q)' = IF q = r THEN Of(q) \ {n} ELSE Of(q)
  BY DEF Remove, Of
<1>2. Held' = [Held EXCEPT ![r] = @ \ {n}]
  BY <1>1 DEF Held
<1>3. running' \subseteq running
  BY DEF Remove
<1> QED
  BY <1>2, <1>3, Loss DEF Remove, TypeInv, TypeOK

LEMMA Starting ==
  ASSUME TypeInv, NEW r \in Runs, NEW n \in Startable, Start(r, n)
  PROVE  /\ Held' = Held
         /\ \A q \in Runs \ {r} : Served'[q] = Served[q]
         /\ Served'[r] \subseteq Served[r] \cup {RoleOf(n)}
         /\ running' \subseteq objs' /\ running' \subseteq Runs \X Startable
<1>1. Held' = Held
  BY DEF Start, Held, Of
<1>2. \A q \in Runs \ {r} : Up(q)' = Up(q)
  BY DEF Start, Up
<1>3. Up(r)' \subseteq Up(r) \cup {n}
  BY DEF Start, Up
<1>4. /\ \A q \in Runs \ {r} : Served'[q] = Served[q]
      /\ Served'[r] \subseteq Served[r] \cup {RoleOf(n)}
  BY <1>2, <1>3 DEF Served, UpRoles
<1> QED
  BY <1>1, <1>4 DEF Start, TypeInv, TypeOK

LEMMA Stopping ==
  ASSUME TypeInv, UNCHANGED objs, running' \subseteq running
  PROVE  /\ Held' = Held
         /\ \A q \in Runs : Served'[q] \subseteq Served[q]
BY Loss DEF Held, Of

\* The sets of objects that the code compares.
LEMMA OnlyMeans ==
  ASSUME TypeInv, NEW r \in Runs, NEW res \in SUBSET Names
  PROVE  objs = {r} \X res <=> Only(r, res)
<1>1. objs = {r} \X res <=>
        \A q \in Runs, n \in Names : <<q, n>> \in objs <=> q = r /\ n \in res
  BY DEF TypeInv, TypeOK
<1>2. ASSUME NEW q \in Runs
      PROVE  Held[q] = (IF q = r THEN res ELSE {}) <=>
                \A n \in Names : <<q, n>> \in objs <=> q = r /\ n \in res
  BY Members, View
<1> QED
  BY <1>1, <1>2 DEF Only

\* Of p nothing exists but P, of c nothing but C, and nothing else.
Confined(p, P, c, C) ==
    /\ \A r \in Runs \ {p, c} : Held[r] = {}
    /\ Held[p] \subseteq P
    /\ Held[c] \subseteq C

LEMMA TwoRuns ==
  ASSUME TypeInv, NEW p \in Runs, NEW c \in Runs, p # c, NEW P, NEW C
  PROVE  objs \subseteq ({p} \X P) \cup ({c} \X C) <=> Confined(p, P, c, C)
<1> USE DEF Confined
<1>1. objs \subseteq ({p} \X P) \cup ({c} \X C) <=>
        \A q \in Runs, n \in Names :
            <<q, n>> \in objs => (q = p /\ n \in P) \/ (q = c /\ n \in C)
  BY DEF TypeInv, TypeOK
<1>2. \A q \in Runs, n \in Names : n \in Held[q] <=> <<q, n>> \in objs
  BY Members
<1>3. \A q \in Runs : Held[q] \in SUBSET Names
  BY View
<1>4. ASSUME objs \subseteq ({p} \X P) \cup ({c} \X C)
      PROVE  /\ \A r \in Runs \ {p, c} : Held[r] = {}
             /\ Held[p] \subseteq P /\ Held[c] \subseteq C
  BY <1>1, <1>2, <1>3, <1>4
<1>5. ASSUME \A r \in Runs \ {p, c} : Held[r] = {}, Held[p] \subseteq P, Held[c] \subseteq C
      PROVE  objs \subseteq ({p} \X P) \cup ({c} \X C)
  <2>1. ASSUME NEW q \in Runs, NEW n \in Names, n \in Held[q]
        PROVE  (q = p /\ n \in P) \/ (q = c /\ n \in C)
    BY <1>5, <2>1
  <2> QED
    BY <1>1, <1>2, <2>1
<1> QED
  BY <1>4, <1>5

LEMMA NoOrphansMeans ==
  ASSUME TypeInv, NEW m \in Journal, m.prev # m.cand
  PROVE  NoOrphans(m) <=> Confined(m.prev, m.prevRes, m.cand, m.candRes)
<1> DEFINE Within(p, P, c, C) == objs \subseteq ({p} \X P) \cup ({c} \X C)
<1>1. m.prev \in Runs /\ m.cand \in Runs
  BY DEF Journal
<1>2. \A p, c \in Runs : \A P, C : p # c => (Within(p, P, c, C) <=> Confined(p, P, c, C))
  BY TwoRuns
<1>3. NoOrphans(m) <=> Within(m.prev, m.prevRes, m.cand, m.candRes)
  BY DEF NoOrphans, Recorded
<1> HIDE DEF Within
<1> QED
  BY <1>1, <1>2, <1>3

-----------------------------------------------------------------------------
(* What every step of a command may rely on, and what it has to keep.      *)

LEMMA InCommand ==
  ASSUME IInv, pc # "idle"
  PROVE  /\ mem \in Journal /\ jr \in Journal
         /\ mem.prev \in Runs /\ mem.cand \in Runs /\ mem.prev # mem.cand
         /\ mem.prev = jr.prev /\ mem.cand = jr.cand
         /\ mem.phase = jr.phase /\ mem.roles = jr.roles
         /\ mem.prevRes \in SUBSET Names /\ mem.candRes \in SUBSET Names
         /\ Held \in [Runs -> SUBSET Names]
         /\ Served \in [Runs -> SUBSET Roles]
         /\ Fixed(mem) = Fixed(jr) /\ OneGateway(mem.prevRes)
<1>1. mem \in Journal /\ jr \in Journal
  BY DEF IInv, MemoryInv, TypeInv, TypeOK
<1>2. mem.prev = jr.prev /\ mem.cand = jr.cand
  BY DEF IInv, MemoryInv
<1>3. jr.prev # jr.cand
  BY DEF IInv, MemoryInv, TypeInv, TypeOK
<1> QED
  BY <1>1, <1>2, <1>3, View DEF IInv, MemoryInv, Journal

\* The daemon's part of the type invariant.
Typed(os, run) == os \subseteq Runs \X Names /\ run \subseteq os /\ run \subseteq Runs \X Startable

\* A step that does not save the journal.
LEMMA Unsaved ==
  ASSUME IInv, pc # "idle",
         NEW p \in Labels \ {"idle"}, NEW m \in Journal, Step(p, m), UNCHANGED jr,
         disk' \in RunState, disk'.run \in {jr.prev, jr.cand},
         Typed(objs', running'),
         m.phase = mem.phase, m.roles = mem.roles, m.prev = mem.prev, m.cand = mem.cand,
         Fixed(m) = Fixed(mem), OneGateway(m.prevRes),
         PortInv', Owned(jr)', Served'[jr.prev] \subseteq jr.roles,
         jr.phase # "ready" => Fixed(jr) \subseteq Held'[jr.prev],
         CandidateInv', CompletionInv', RollbackInv'
  PROVE  IInv'
<1>1. jr # NoJournal /\ m # NoJournal
  BY ConstantsAssumption DEF IInv, MemoryInv
<1>2. TypeInv'
  BY DEF IInv, TypeInv, TypeOK, Step, Typed
<1>3. JournalInv'
  BY <1>1 DEF IInv, JournalInv, Fixed
<1>4. MemoryInv'
  BY <1>1 DEF IInv, MemoryInv, Step, Fixed
<1>5. SteadyInv'
  BY <1>1 DEF SteadyInv
<1> QED
  BY <1>2, <1>3, <1>4, <1>5 DEF IInv

\* Where gateways on the reviewed port only go, one stays one.
LEMMA PortKept ==
  ASSUME IInv, \A q \in Runs : Held'[q] \cap Reviewed \subseteq Held[q]
  PROVE  PortInv'
BY DEF IInv, PortInv

\* A step of the candidate's creation, or of the cutover.
LEMMA Advance ==
  ASSUME IInv, NEW p, NEW c \in SUBSET Names,
         (pc \in Staging /\ p \in Staging) \/ (pc \in Cutting /\ p \in Cutting),
         Step(p, [mem EXCEPT !.candRes = c]), UNCHANGED <<disk, jr>>,
         Typed(objs', running'), Held' = [Held EXCEPT ![mem.cand] = c],
         Served'[mem.prev] \subseteq Served[mem.prev],
         PortInv', CandidateHas(p, c), p = "openFinal" => Held[mem.prev] \cap Reviewed = {}
  PROVE  IInv'
<1> DEFINE m == [mem EXCEPT !.candRes = c]
<1>1. pc # "idle" /\ p \in Labels \ {"idle"}
  BY DEF Staging, Cutting, Labels, Creating, Replacing, AfterSave
<1>2. m \in Journal /\ m.phase = mem.phase /\ m.roles = mem.roles /\ m.prev = mem.prev
      /\ m.cand = mem.cand /\ m.prevRes = mem.prevRes /\ m.candRes = c
  BY <1>1, InCommand DEF Journal
<1>3. Held'[mem.cand] = c /\ \A q \in Runs \ {mem.cand} : Held'[q] = Held[q]
  BY <1>1, InCommand
<1>4. pc' = p /\ mem' = m /\ cmd' = cmd
  BY DEF Step
<1>5. Owned(jr)' /\ Served'[jr.prev] \subseteq jr.roles
      /\ (jr.phase # "ready" => Fixed(jr) \subseteq Held'[jr.prev])
  BY <1>1, <1>3, InCommand DEF IInv, MemoryInv, JournalInv, Owned
<1>6. CandidateInv'
  BY <1>1, <1>2, <1>3, <1>4, InCommand
     DEF IInv, CandidateInv, Staging, Cutting, Creating, Giving
<1>7. CompletionInv' /\ RollbackInv'
  BY <1>4 DEF IInv, CandidateInv, CompletionInv, RollbackInv, Completing, Rolling, Halting,
     Reseeding, Staging, Cutting, Creating
<1>8. Fixed(m) = Fixed(mem) /\ OneGateway(m.prevRes)
  BY <1>1, <1>2, InCommand DEF Fixed
<1>9. Step(p, m) /\ disk' \in RunState /\ disk'.run \in {jr.prev, jr.cand}
  BY <1>1 DEF IInv, TypeInv, TypeOK, MemoryInv
<1> HIDE DEF m
<1> QED
  BY <1>1, <1>2, <1>5, <1>6, <1>7, <1>8, <1>9, Unsaved

\* A step that saves the journal.
LEMMA Saved ==
  ASSUME IInv, pc # "idle", UNCHANGED <<dockerVars, disk, cmd, calm>>,
         NEW p \in Labels, NEW m \in Journal,
         jr' = m, pc' = p, mem' = (IF p = "idle" THEN NoJournal ELSE m),
         m.roles = mem.roles, m.prev = mem.prev, m.cand = mem.cand,
         Fixed(m) = Fixed(mem), OneGateway(m.prevRes),
         m.phase = mem.phase \/ jr.phase # "ready",
         CandidateInv', CompletionInv', RollbackInv'
  PROVE  IInv'
<1>1. /\ m # NoJournal /\ jr # NoJournal
      /\ m.prev = jr.prev /\ m.cand = jr.cand /\ m.roles = jr.roles
      /\ Fixed(m) = Fixed(jr) /\ m.prev \in Runs
  BY InCommand, ConstantsAssumption DEF IInv, MemoryInv
<1>2. Held' = Held /\ Served' = Served /\ objs' = objs /\ running' = running
  BY Nothing DEF dockerVars
<1>3. TypeInv'
  BY <1>1, <1>2 DEF IInv, TypeInv, TypeOK
<1>4. PortInv'
  BY <1>2 DEF IInv, PortInv
<1>5. JournalInv'
  <2>1. /\ Owned(jr) /\ Deployed \subseteq jr.prevRes /\ Served[jr.prev] \subseteq jr.roles
        /\ jr.phase # "ready" => Fixed(jr) \subseteq Held[jr.prev]
    BY <1>1 DEF IInv, JournalInv
  <2>2. Deployed \cap Replaceable = {}
    BY DEF Deployed, Replaceable, Reviewed
  <2>3. Deployed \subseteq m.prevRes
    BY <1>1, <2>1, <2>2 DEF Fixed
  <2>4. Held[m.prev] \subseteq m.prevRes \cup Replaceable
    BY <1>1, <2>1 DEF Owned, Fixed
  <2>5. m.phase # "ready" => jr.phase # "ready"
    BY InCommand
  <2> QED
    BY <1>1, <1>2, <2>1, <2>3, <2>4, <2>5 DEF JournalInv, Owned, Fixed
<1>6. MemoryInv'
  BY <1>1 DEF MemoryInv, Fixed
<1>7. SteadyInv'
  BY <1>1 DEF SteadyInv
<1> QED
  BY <1>3, <1>4, <1>5, <1>6, <1>7 DEF IInv

\* An exception or a kill ends the command.
LEMMA Interrupted ==
  ASSUME IInv, pc # "idle", Step("idle", NoJournal), UNCHANGED <<dockerVars, disk, jr>>
  PROVE  IInv'
<1>1. Held' = Held /\ Served' = Served /\ objs' = objs /\ running' = running
  BY Nothing DEF dockerVars
<1>2. pc' = "idle" /\ mem' = NoJournal /\ UNCHANGED <<cmd, calm>> /\ jr # NoJournal
  BY DEF Step, IInv, MemoryInv
<1>3. TypeInv'
  BY <1>1, <1>2 DEF IInv, TypeInv, TypeOK, Labels, Idle
<1>4. PortInv' /\ JournalInv'
  BY <1>1 DEF IInv, PortInv, JournalInv, Owned, Fixed
<1>5. MemoryInv' /\ SteadyInv'
  BY <1>2 DEF MemoryInv, SteadyInv
<1>6. CandidateInv' /\ CompletionInv' /\ RollbackInv'
  BY <1>2 DEF CandidateInv, CompletionInv, RollbackInv, Staging, Creating, Cutting, Giving,
     Completing, Rolling, Reseeding, Halting
<1> QED
  BY <1>3, <1>4, <1>5, <1>6 DEF IInv

-----------------------------------------------------------------------------
(* activate_reviewed_update.                                               *)

LEMMA InAdvance ==
  ASSUME IInv, pc \in Staging \cup Cutting
  PROVE  /\ pc # "idle" /\ TypeInv
         /\ Held[mem.cand] = mem.candRes /\ CandidateHas(pc, mem.candRes)
         /\ mem = [mem EXCEPT !.candRes = mem.candRes]
         /\ Held = [Held EXCEPT ![mem.cand] = mem.candRes]
<1>1. pc # "idle"
  BY DEF Staging, Cutting, Creating
<1>2. Held[mem.cand] = mem.candRes /\ CandidateHas(pc, mem.candRes)
  BY DEF IInv, CandidateInv
<1> QED
  BY <1>1, <1>2, InCommand DEF IInv, Journal

LEMMA StagingStep ==
  ASSUME IInv, CreateCandidate \/ StartCandidate \/ RemoveSeeder \/ OpenTemporary
  PROVE  IInv'
<1>1. pc \in Staging /\ pc \in Staging \cup Cutting /\ UNCHANGED <<disk, jr>>
  BY DEF CreateCandidate, StartCandidate, RemoveSeeder, OpenTemporary, Staging, Creating
<1>2. /\ mem.cand \in Runs /\ mem.prev \in Runs /\ mem.candRes \in SUBSET Names
      /\ Held \in [Runs -> SUBSET Names]
  BY <1>1, InAdvance, InCommand
<1>0. "created" \in Staging /\ "unseed" \in Staging /\ "smoke" \in Staging /\ "unseeded" \in Staging
  BY DEF Staging, Creating
<1>3. CASE CreateCandidate
  <2>1. PICK i \in DOMAIN Order :
           /\ \A j \in DOMAIN Order : j < i <=> Order[j] \in mem.candRes
           /\ Create(mem.cand, Order[i])
           /\ Step("created", [mem EXCEPT !.candRes = @ \cup {Order[i]}])
    BY <1>3 DEF CreateCandidate
  <2> DEFINE n == Order[i]
  <2>2. mem.candRes \in Prefixes
    BY <1>1, <1>3, InAdvance DEF CandidateHas, CreateCandidate
  <2>3. n \in Names \ Reviewed /\ mem.candRes \cup {n} \in Prefixes
    <3>1. i \in 1..4 /\ \A j \in 1..4 : j < i <=> Order[j] \in mem.candRes
      BY <2>1 DEF Order
    <3>2. Order[1] = "base" /\ Order[2] = "seeder" /\ Order[3] = "app" /\ Order[4] = "temporary"
      BY DEF Order
    <3> QED
      BY <3>1, <3>2, <2>2 DEF Prefixes, Names, Gateways, Reviewed
  <2>4. Create(mem.cand, n) /\ Step("created", [mem EXCEPT !.candRes = mem.candRes \cup {n}])
    BY <2>1
  <2> HIDE DEF n
  <2>5. /\ Held' = [Held EXCEPT ![mem.cand] = mem.candRes \cup {n}] /\ Served' = Served
        /\ Typed(objs', running')
    BY <1>1, <1>2, <2>3, <2>4, InAdvance, Creation DEF Typed, TypeInv, Create
  <2>6. PortInv'
    BY <1>1, <1>2, <2>3, <2>5, InAdvance, PortKept
  <2>7. CandidateHas("created", mem.candRes \cup {n})
    BY <2>3 DEF CandidateHas
  <2> QED
    BY <1>0, <1>1, <1>2, <2>3, <2>4, <2>5, <2>6, <2>7, Advance
<1>4. CASE StartCandidate \/ OpenTemporary
  <2>1. PICK p \in {"unseed", "smoke"}, n \in {"app", "temporary"} :
           Start(mem.cand, n) /\ Step(p, mem)
    BY <1>4 DEF StartCandidate, OpenTemporary
  <2>2. n \in Startable
    BY <2>1 DEF Startable, Gateways
  <2>3. CandidateHas(pc', mem.candRes)
    <3>1. CASE StartCandidate
      <4>1. mem.candRes \in Prefixes /\ \A i \in DOMAIN Order : Order[i] \in mem.candRes
        BY <1>1, <3>1, InAdvance DEF CandidateHas, StartCandidate
      <4>2. 4 \in DOMAIN Order /\ Order[4] = "temporary"
        BY DEF Order
      <4>3. "temporary" \in mem.candRes
        BY <4>1, <4>2
      <4> QED
        BY <3>1, <4>1, <4>3 DEF Prefixes, CandidateHas, StartCandidate, Step
    <3>2. CASE OpenTemporary
      BY <1>1, <3>2, InAdvance DEF OpenTemporary, CandidateHas, Step
    <3> QED
      BY <1>4, <3>1, <3>2
  <2>4. /\ Held' = Held /\ Typed(objs', running')
        /\ Served'[mem.prev] \subseteq Served[mem.prev]
    BY <1>1, <1>2, <2>1, <2>2, InAdvance, InCommand, Starting DEF Typed, TypeInv, TypeOK, Start
  <2>5. PortInv'
    BY <2>4, PortKept
  <2>6. Step(p, [mem EXCEPT !.candRes = mem.candRes])
        /\ Held' = [Held EXCEPT ![mem.cand] = mem.candRes] /\ pc' = p
    BY <1>1, <2>1, <2>4, InAdvance DEF Step
  <2> QED
    BY <1>0, <1>1, <1>2, <2>1, <2>3, <2>4, <2>5, <2>6, Advance
<1>5. CASE RemoveSeeder
  <2> DEFINE c == mem.candRes \ {"seeder"}
  <2>1. Remove(mem.cand, "seeder") /\ Step("unseeded", [mem EXCEPT !.candRes = c])
    BY <1>5 DEF RemoveSeeder
  <2>2. "seeder" \in Names
    BY DEF Names
  <2>3. CandidateHas("unseeded", c) /\ c \in SUBSET Names
    BY <1>1, <1>2, <1>5, InAdvance DEF RemoveSeeder, CandidateHas
  <2>4. /\ Held' = [Held EXCEPT ![mem.cand] = c] /\ Typed(objs', running')
        /\ Served'[mem.prev] \subseteq Served[mem.prev]
    BY <1>1, <1>2, <2>1, <2>2, InAdvance, Removal DEF Typed, TypeInv, Remove
  <2> HIDE DEF c
  <2>5. PortInv'
    BY <1>1, <1>2, <2>4, InAdvance, PortKept DEF c
  <2> QED
    BY <1>0, <1>1, <2>1, <2>3, <2>4, <2>5, Advance
<1> QED
  BY <1>3, <1>4, <1>5

LEMMA CuttingStep ==
  ASSUME IInv, CloseTemporary \/ OpenFinal \/ StartFinal \/ Verify \/ Settle
  PROVE  IInv'
<1>1. pc \in Cutting /\ pc \in Staging \cup Cutting /\ UNCHANGED <<disk, jr>>
  BY DEF CloseTemporary, OpenFinal, StartFinal, Verify, Settle, Cutting
<1>2. /\ mem.cand \in Runs /\ mem.prev \in Runs /\ mem.candRes \in SUBSET Names
      /\ Held \in [Runs -> SUBSET Names]
  BY <1>1, InAdvance, InCommand
<1>3. CASE CloseTemporary
  <2> DEFINE c == mem.candRes \ {"temporary"}
  <2>1. Remove(mem.cand, "temporary") /\ Step("closed", [mem EXCEPT !.candRes = c])
    BY <1>3 DEF CloseTemporary
  <2>2. "temporary" \in Names
    BY DEF Names, Gateways
  <2>3. CandidateHas("closed", c) /\ c \in SUBSET Names
    BY <1>1, <1>2, <1>3, InAdvance DEF CloseTemporary, CandidateHas
  <2>4. /\ Held' = [Held EXCEPT ![mem.cand] = c] /\ Typed(objs', running')
        /\ Served'[mem.prev] \subseteq Served[mem.prev]
    BY <1>1, <1>2, <2>1, <2>2, InAdvance, Removal DEF Typed, TypeInv, Remove
  <2> HIDE DEF c
  <2>5. PortInv'
    BY <1>1, <1>2, <2>4, InAdvance, PortKept DEF c
  <2> QED
    BY <1>1, <2>1, <2>3, <2>4, <2>5, Advance DEF Cutting
<1>4. CASE OpenFinal
  <2> DEFINE c == mem.candRes \cup {"gateway"}
  <2>1. pc = "openFinal" /\ Create(mem.cand, "gateway") /\ Step("opened", [mem EXCEPT !.candRes = c])
    BY <1>4 DEF OpenFinal
  <2>2. "gateway" \in Names
    BY DEF Names, Gateways, Reviewed
  <2>3. mem.candRes = {"base", "app"}
    BY <1>1, <2>1, InAdvance DEF CandidateHas
  <2>4. CandidateHas("opened", c) /\ c \in SUBSET Names
    BY <1>2, <2>2, <2>3 DEF CandidateHas
  <2>5. /\ Held' = [Held EXCEPT ![mem.cand] = c] /\ Served' = Served
        /\ Typed(objs', running')
    BY <1>1, <1>2, <2>1, <2>2, InAdvance, Creation DEF Typed, TypeInv, Create
  <2>6. \A q \in Runs : Held[q] \cap Reviewed = {}
    <3>1. Held[mem.prev] \cap Reviewed = {}
      BY <2>1 DEF IInv, CandidateInv
    <3>2. Held[mem.cand] \cap Reviewed = {}
      BY <1>1, <2>3, InAdvance DEF Reviewed
    <3>3. \A q \in Runs \ {mem.prev, mem.cand} : Held[q] = {}
      BY <1>1, InAdvance, InCommand DEF IInv, MemoryInv, JournalInv, Owned
    <3> QED
      BY <3>1, <3>2, <3>3
  <2>7. PortInv'
    BY <1>2, <2>3, <2>5, <2>6 DEF PortInv, Reviewed
  <2> HIDE DEF c
  <2> QED
    BY <1>1, <2>1, <2>4, <2>5, <2>7, Advance DEF Cutting
<1>5. CASE StartFinal
  <2>1. Start(mem.cand, "gateway") /\ Step("verify", mem)
    BY <1>5 DEF StartFinal
  <2>2. "gateway" \in Startable
    BY DEF Startable, Gateways, Reviewed
  <2>3. CandidateHas("verify", mem.candRes)
    BY <1>1, <1>5, InAdvance DEF StartFinal, CandidateHas
  <2>4. /\ Held' = Held /\ Typed(objs', running')
        /\ Served'[mem.prev] \subseteq Served[mem.prev]
    BY <1>1, <1>2, <2>1, <2>2, InAdvance, InCommand, Starting DEF Typed, TypeInv, TypeOK, Start
  <2>5. PortInv'
    BY <2>4, PortKept
  <2>6. Step("verify", [mem EXCEPT !.candRes = mem.candRes])
        /\ Held' = [Held EXCEPT ![mem.cand] = mem.candRes]
    BY <1>1, <2>1, <2>4, InAdvance
  <2> QED
    BY <1>1, <1>2, <2>3, <2>4, <2>5, <2>6, Advance DEF Cutting
<1>6. CASE Verify \/ Settle
  <2>1. Step("settle", mem) /\ UNCHANGED objs /\ running' \subseteq running
    BY <1>6 DEF Verify, Settle, Stop, dockerVars
  <2>2. CandidateHas("settle", mem.candRes)
    BY <1>1, <1>6, InAdvance DEF Verify, Settle, CandidateHas
  <2>3. /\ Held' = Held /\ Typed(objs', running')
        /\ Served'[mem.prev] \subseteq Served[mem.prev]
    BY <1>1, <1>2, <2>1, InAdvance, Stopping DEF Typed, TypeInv, TypeOK
  <2>4. PortInv'
    BY <2>3, PortKept
  <2>5. Step("settle", [mem EXCEPT !.candRes = mem.candRes])
        /\ Held' = [Held EXCEPT ![mem.cand] = mem.candRes]
    BY <1>1, <2>1, <2>3, InAdvance
  <2> QED
    BY <1>1, <1>2, <2>2, <2>3, <2>4, <2>5, Advance DEF Cutting
<1> QED
  BY <1>3, <1>4, <1>5, <1>6

\* Where a command is neither with its candidate nor rolling back.
Elsewhere == {"restore", "adopted", "oldSeeder", "seederGone", "dropped"}

LEMMA ElsewhereKeeps ==
  ASSUME IInv, pc' \in Elsewhere, cmd' = "clean" => pc' # "seederGone"
  PROVE  CandidateInv' /\ CompletionInv' /\ RollbackInv'
BY DEF Elsewhere, CandidateInv, CompletionInv, RollbackInv, Staging, Creating, Cutting,
   Giving, Completing, Rolling, Reseeding, Halting, Cleaning

\* A step that leaves the daemon, or only stops containers.
LEMMA Calm ==
  ASSUME IInv, pc # "idle", UNCHANGED objs, running' \subseteq running
  PROVE  /\ Held' = Held /\ Typed(objs', running') /\ PortInv'
         /\ \A q \in Runs : Served'[q] \subseteq Served[q]
         /\ jr' = jr =>
               /\ Owned(jr)' /\ Served'[jr.prev] \subseteq jr.roles
               /\ jr.phase # "ready" => Fixed(jr) \subseteq Held'[jr.prev]
<1>1. TypeInv /\ jr # NoJournal /\ jr.prev \in Runs
  BY InCommand DEF IInv, MemoryInv
<1>2. Held' = Held /\ \A q \in Runs : Served'[q] \subseteq Served[q]
  BY <1>1, Stopping
<1>3. Typed(objs', running')
  BY <1>1 DEF Typed, TypeInv, TypeOK
<1> QED
  BY <1>1, <1>2, <1>3, PortKept DEF IInv, JournalInv, Owned

\* The same of a step that saves neither file.
LEMMA CalmStep ==
  ASSUME IInv, pc # "idle", NEW p \in Labels \ {"idle"}, NEW m \in Journal, Step(p, m),
         UNCHANGED <<objs, disk, jr>>, running' \subseteq running,
         m.phase = mem.phase, m.roles = mem.roles, m.prev = mem.prev, m.cand = mem.cand,
         Fixed(m) = Fixed(mem), OneGateway(m.prevRes),
         CandidateInv', CompletionInv', RollbackInv'
  PROVE  IInv'
<1>1. disk' \in RunState /\ disk'.run \in {jr.prev, jr.cand}
  BY DEF IInv, TypeInv, TypeOK, MemoryInv
<1> QED
  BY <1>1, Calm, Unsaved

LEMMA CloseOldStep ==
  ASSUME IInv, CloseOld
  PROVE  IInv'
<1>1. /\ pc = "closeOld" /\ pc # "idle" /\ pc \in Cutting /\ pc \in Staging \cup Cutting
      /\ Step("openFinal", mem) /\ UNCHANGED <<disk, jr>>
  BY DEF CloseOld, Cutting
<1>2. PICK g \in mem.prevRes \cap Reviewed : Remove(mem.prev, g)
  BY DEF CloseOld
<1>3. g \in Names /\ g \in Reviewed
  BY <1>1, InCommand
<1>4. /\ Held' = [Held EXCEPT ![mem.prev] = @ \ {g}] /\ Typed(objs', running')
      /\ \A q \in Runs : Served'[q] \subseteq Served[q]
  BY <1>1, <1>2, <1>3, InCommand, InAdvance, Removal DEF Typed, TypeInv, Remove
<1>5. /\ Held'[mem.prev] = Held[mem.prev] \ {g}
      /\ \A q \in Runs \ {mem.prev} : Held'[q] = Held[q]
  BY <1>1, <1>4, InCommand
<1>6. PortInv'
  BY <1>5, PortKept
<1>7. /\ Owned(jr)' /\ Served'[jr.prev] \subseteq jr.roles
      /\ jr.phase # "ready" => Fixed(jr) \subseteq Held'[jr.prev]
  BY <1>1, <1>3, <1>4, <1>5, InCommand DEF IInv, MemoryInv, JournalInv, Owned, Fixed, Replaceable
<1>8. Held'[mem.prev] \cap Reviewed = {}
  <2>1. Held[mem.prev] \subseteq mem.prevRes
    BY <1>1 DEF IInv, CandidateInv
  <2>2. mem.prevRes \cap Reviewed = {g}
    BY <1>1, <1>2, InCommand DEF OneGateway
  <2> QED
    BY <1>5, <2>1, <2>2
<1>9. CandidateInv'
  <2>1. CandidateHas("openFinal", mem.candRes) /\ Held'[mem.cand] = mem.candRes
    BY <1>1, <1>5, InAdvance, InCommand DEF CandidateHas
  <2>2. Held'[mem.prev] \subseteq mem.prevRes
    BY <1>1, <1>5 DEF IInv, CandidateInv
  <2>3. cmd = "update" /\ jr.phase = "cutover"
    BY <1>1 DEF IInv, CandidateInv
  <2> QED
    BY <1>1, <1>8, <2>1, <2>2, <2>3
       DEF CandidateInv, Step, Staging, Creating, Giving
<1>10. CompletionInv' /\ RollbackInv'
  BY <1>1 DEF IInv, CandidateInv, CompletionInv, RollbackInv, Step, Completing, Rolling,
     Halting, Reseeding, Cutting
<1>11. disk' \in RunState /\ disk'.run \in {jr.prev, jr.cand} /\ "openFinal" \in Labels \ {"idle"}
  BY <1>1 DEF IInv, TypeInv, TypeOK, MemoryInv, Labels, Replacing
<1> QED
  BY <1>1, <1>4, <1>6, <1>7, <1>9, <1>10, <1>11, InCommand, Unsaved

\* The journal enters its next phase.
LEMMA PhaseStep ==
  ASSUME IInv, Smoke \/ Ready
  PROVE  IInv'
<1>1. /\ pc \in {"smoke", "settle"} /\ pc # "idle" /\ pc \in Staging \cup Cutting
      /\ UNCHANGED <<dockerVars, disk, cmd, calm>> /\ jr.phase # "ready" /\ cmd = "update"
  BY DEF Smoke, Ready, Step, Staging, Cutting, Creating, IInv, CandidateInv
<1>2. PICK p \in {"closeTemporary", "publish"}, w \in {"cutover", "ready"} :
         /\ jr' = [mem EXCEPT !.phase = w] /\ mem' = jr' /\ pc' = p
         /\ p = "closeTemporary" => Smoke /\ w = "cutover"
         /\ p = "publish" => Ready /\ w = "ready"
  BY DEF Smoke, Ready, Step
<1> DEFINE m == [mem EXCEPT !.phase = w]
<1>3. /\ m \in Journal /\ m.phase = w /\ m.roles = mem.roles /\ m.prev = mem.prev
      /\ m.cand = mem.cand /\ m.prevRes = mem.prevRes /\ m.candRes = mem.candRes
  BY <1>1, InCommand DEF Journal
<1>4. Held' = Held /\ Served' = Served
  BY <1>1, Nothing
<1>5. jr' = m /\ mem' = m
  BY <1>2
<1> HIDE DEF m
<1>6. CandidateInv'
  <2>1. CASE p = "publish"
    BY <1>2, <2>1 DEF CandidateInv, Staging, Creating, Cutting, Giving
  <2>2. CASE p = "closeTemporary"
    <3>1. CandidateHas("closeTemporary", mem.candRes)
      BY <1>1, <1>2, <2>2, InAdvance DEF Smoke, CandidateHas
    <3>2. Held[mem.cand] = mem.candRes /\ Held[mem.prev] \subseteq mem.prevRes
      BY <1>1 DEF IInv, CandidateInv
    <3>3. w = "cutover"
      BY <1>2, <2>2
    <3> QED
      BY <1>1, <1>2, <1>3, <1>4, <1>5, <2>2, <3>1, <3>2, <3>3
         DEF CandidateInv, Staging, Creating, Giving
  <2> QED
    BY <2>1, <2>2
<1>7. CompletionInv'
  <2>1. CASE p = "closeTemporary"
    BY <1>2, <2>1 DEF CompletionInv, Completing
  <2>2. CASE p = "publish"
    <3>1. Ready /\ w = "ready" /\ pc = "settle"
      BY <1>2, <2>2 DEF Ready
    <3>2. Held[mem.cand] = mem.candRes /\ mem.candRes = {"base", "app", "gateway"}
      BY <1>1, <3>1, InAdvance DEF CandidateHas
    <3>3. Whole(mem.candRes)
      BY <3>2 DEF Whole, Deployed, OneGateway, Reviewed
    <3>4. Served[mem.cand] \subseteq mem.roles
      BY <1>1, <3>1, InCommand DEF Ready, Served
    <3> QED
      BY <1>2, <1>3, <1>4, <1>5, <2>2, <3>1, <3>2, <3>3, <3>4 DEF CompletionInv
  <2> QED
    BY <2>1, <2>2
<1>8. RollbackInv'
  BY <1>1, <1>2 DEF RollbackInv, Rolling, Reseeding, Halting
<1>9. p \in Labels /\ p # "idle" /\ Fixed(m) = Fixed(mem) /\ OneGateway(m.prevRes)
  BY <1>1, <1>2, <1>3, InCommand DEF Labels, Replacing, Fixed
<1> QED
  BY <1>1, <1>2, <1>3, <1>5, <1>6, <1>7, <1>8, <1>9, Saved

\* The checkpoints.
LEMMA SaveStep ==
  ASSUME IInv, SaveJournal
  PROVE  IInv'
<1>1. PICK p \in {"create", "openTemporary", "closeOld", "startFinal", "oldSeeder",
                  "roles", "restart", "startSeeded", "final", "idle", "abandoning"} :
         /\ <<pc, p>> \in {<<"created", "create">>, <<"unseeded", "openTemporary">>,
                <<"closed", "closeOld">>, <<"opened", "startFinal">>,
                <<"adopted", "oldSeeder">>, <<"dropped", "oldSeeder">>,
                <<"reopened", "roles">>, <<"reseeded", "restart">>,
                <<"settled", "startSeeded">>, <<"started", "final">>,
                <<"halted", "idle">>, <<"abandoned", "abandoning">>}
         /\ Step(p, IF p = "idle" THEN NoJournal ELSE mem)
  BY DEF SaveJournal, AfterSave
<1>2. /\ pc # "idle" /\ jr' = mem /\ pc' = p /\ mem' = (IF p = "idle" THEN NoJournal ELSE mem)
      /\ UNCHANGED <<dockerVars, disk, cmd, calm>>
  BY <1>1 DEF SaveJournal, Step
<1>3. Held' = Held /\ Served' = Served
  BY <1>2, Nothing
<1>4. mem \in Journal /\ mem.phase = jr.phase /\ OneGateway(mem.prevRes)
  BY <1>2, InCommand
<1>5. CandidateInv'
  <2>1. CASE pc \in {"created", "unseeded", "closed", "opened"}
    <3>1. /\ cmd = "update" /\ Held[mem.cand] = mem.candRes /\ Held[mem.prev] \subseteq mem.prevRes
          /\ CandidateHas(pc, mem.candRes)
          /\ pc \in {"created", "unseeded"} => jr.phase = "staged"
          /\ pc \in {"closed", "opened"} => jr.phase = "cutover"
      BY <2>1 DEF IInv, CandidateInv, Staging, Cutting
    <3>2. /\ p \in {"create", "openTemporary", "closeOld", "startFinal"}
          /\ p \in {"create", "openTemporary"} <=> pc \in {"created", "unseeded"}
          /\ CandidateHas(p, mem.candRes)
      BY <1>1, <2>1, <3>1 DEF CandidateHas
    <3> QED
      BY <1>2, <1>3, <1>4, <2>1, <3>1, <3>2 DEF CandidateInv, Staging, Creating, Cutting, Giving
  <2>2. CASE pc = "abandoned"
    <3>1. cmd = "update" /\ jr.phase = "staged" /\ p = "abandoning"
      BY <1>1, <2>2 DEF IInv, CandidateInv, Giving
    <3> QED
      BY <1>2, <1>4, <3>1 DEF CandidateInv, Staging, Creating, Cutting, Giving
  <2>3. CASE pc \notin {"created", "unseeded", "closed", "opened", "abandoned"}
    BY <1>1, <1>2, <2>3 DEF CandidateInv, Staging, Creating, Cutting, Giving
  <2> QED
    BY <2>1, <2>2, <2>3
<1>6. CompletionInv'
  BY <1>1, <1>2 DEF CompletionInv, Completing
<1>7. RollbackInv'
  <2>1. CASE pc \in {"reopened", "reseeded", "settled", "started"}
    BY <1>1, <1>2, <1>3, <2>1
       DEF IInv, RollbackInv, Rolling, Reseeding, Halting, Cleaning
  <2>2. CASE pc \in {"created", "unseeded", "closed", "opened", "abandoned"}
    <3>1. cmd = "update"
      BY <2>2 DEF IInv, CandidateInv, Staging, Cutting, Giving
    <3> QED
      BY <1>1, <1>2, <2>2, <3>1 DEF RollbackInv, Rolling, Reseeding, Halting
  <2>3. CASE pc \in {"adopted", "dropped", "halted"}
    BY <1>1, <1>2, <2>3 DEF RollbackInv, Rolling, Reseeding, Halting, Cleaning
  <2> QED
    BY <1>1, <2>1, <2>2, <2>3
<1>8. p \in Labels
  BY <1>1 DEF Labels, Idle, Creating, Replacing, Reseeding, AfterSave
<1> QED
  BY <1>2, <1>4, <1>5, <1>6, <1>7, <1>8, Saved

LEMMA StoreStep ==
  ASSUME IInv, SavePrevious
  PROVE  IInv'
<1>1. PICK p \in {"dropped", "reseeded", "settled", "started", "halted"} :
         /\ <<pc, p>> \in {<<"seederGone", "dropped">>, <<"seeding", "reseeded">>,
                <<"seeded", "settled">>, <<"starting", "started">>, <<"halting", "halted">>}
         /\ Step(p, mem)
  BY DEF SavePrevious, AfterStore
<1>2. /\ pc # "idle" /\ UNCHANGED dockerVars /\ jr' = jr /\ mem' = mem /\ pc' = p /\ cmd' = cmd
      /\ disk' = [run |-> mem.prev, res |-> mem.prevRes]
  BY <1>1 DEF SavePrevious, Step
<1>3. /\ mem \in Journal /\ OneGateway(mem.prevRes)
      /\ disk' \in RunState /\ disk'.run \in {jr.prev, jr.cand}
  BY <1>2, InCommand DEF RunState
<1>4. Held' = Held /\ UNCHANGED objs /\ running' \subseteq running
  BY <1>2, Nothing DEF dockerVars
<1>5. CandidateInv' /\ CompletionInv'
  BY <1>1, <1>2 DEF CandidateInv, CompletionInv, Staging, Creating, Cutting, Giving, Completing
<1>6. RollbackInv'
  BY <1>1, <1>2, <1>4 DEF IInv, RollbackInv, Rolling, Reseeding, Halting, Cleaning
<1>7. p \in Labels \ {"idle"}
  BY <1>1 DEF Labels, AfterSave
<1> QED
  BY <1>1, <1>2, <1>3, <1>4, <1>5, <1>6, <1>7, Calm, Unsaved

-----------------------------------------------------------------------------
(* The end of an update, one way.                                          *)

LEMMA PublishStep ==
  ASSUME IInv, Publish
  PROVE  IInv'
<1>1. /\ pc = "publish" /\ pc # "idle" /\ UNCHANGED dockerVars /\ jr' = jr
      /\ disk' = [run |-> mem.cand, res |-> mem.candRes]
      /\ Step("retire", mem) /\ pc' = "retire" /\ mem' = mem /\ cmd' = cmd
  BY DEF Publish, Step
<1>2. /\ mem \in Journal /\ OneGateway(mem.prevRes)
      /\ disk' \in RunState /\ disk'.run \in {jr.prev, jr.cand}
  BY <1>1, InCommand DEF RunState
<1>3. Held' = Held /\ Served' = Served /\ UNCHANGED objs /\ running' \subseteq running
  BY <1>1, Nothing DEF dockerVars
<1>4. CandidateInv' /\ RollbackInv'
  BY <1>1 DEF CandidateInv, RollbackInv, Staging, Creating, Cutting, Giving, Rolling,
     Reseeding, Halting, Cleaning
<1>5. CompletionInv'
  BY <1>1, <1>3 DEF IInv, CompletionInv, Completing
<1>6. "retire" \in Labels \ {"idle"}
  BY DEF Labels
<1> QED
  BY <1>1, <1>2, <1>3, <1>4, <1>5, <1>6, Calm, Unsaved

LEMMA RetireStep ==
  ASSUME IInv, Retire
  PROVE  IInv'
<1>1. /\ pc = "retire" /\ pc # "idle" /\ NoOrphans(mem) /\ UNCHANGED <<disk, jr>>
      /\ jr.phase = "ready" /\ disk = [run |-> mem.cand, res |-> mem.candRes]
      /\ Held[mem.cand] = mem.candRes /\ Whole(mem.candRes)
      /\ Served[mem.cand] \subseteq mem.roles
  BY DEF Retire, IInv, CompletionInv, Completing
<1>2. /\ mem.prev \in Runs /\ mem.cand \in Runs /\ mem.prev # mem.cand /\ mem \in Journal
      /\ Held \in [Runs -> SUBSET Names] /\ OneGateway(mem.prevRes) /\ TypeInv
      /\ mem.prev = jr.prev /\ mem.cand = jr.cand /\ mem.roles = jr.roles
  BY <1>1, InCommand DEF IInv
<1>3. Confined(mem.prev, mem.prevRes, mem.cand, mem.candRes)
  BY <1>1, <1>2, NoOrphansMeans
<1>4. disk' \in RunState /\ disk'.run \in {jr.prev, jr.cand}
  BY <1>1 DEF IInv, TypeInv, TypeOK, MemoryInv
<1>5. CASE /\ Of(mem.prev) = {}
           /\ Step("forget", mem)
           /\ UNCHANGED dockerVars
  <2>1. Held' = Held /\ Served' = Served /\ UNCHANGED objs /\ running' \subseteq running
    BY <1>5, Nothing DEF dockerVars
  <2>2. pc' = "forget" /\ mem' = mem /\ cmd' = cmd
    BY <1>5 DEF Step
  <2>3. Only(mem.cand, mem.candRes)
    BY <1>1, <1>2, <1>3, <1>5 DEF Only, Confined, Held
  <2>4. CompletionInv'
    BY <1>1, <1>2, <2>1, <2>2, <2>3 DEF CompletionInv, Completing, Only
  <2>5. CandidateInv' /\ RollbackInv'
    BY <2>2 DEF CandidateInv, RollbackInv, Staging, Creating, Cutting, Giving, Rolling,
       Reseeding, Halting, Cleaning
  <2>6. "forget" \in Labels \ {"idle"}
    BY DEF Labels
  <2> QED
    BY <1>1, <1>2, <1>4, <1>5, <2>1, <2>4, <2>5, <2>6, Calm, Unsaved
<1>6. ASSUME NEW n \in Leaving(Of(mem.prev)), Remove(mem.prev, n), Step("retire", mem)
      PROVE  IInv'
  <2>1. n \in Names
    BY <1>6 DEF Leaving, Of
  <2>2. /\ Held' = [Held EXCEPT ![mem.prev] = @ \ {n}] /\ Typed(objs', running')
        /\ \A q \in Runs : Served'[q] \subseteq Served[q]
    BY <1>2, <1>6, <2>1, Removal DEF Typed, TypeInv, Remove
  <2>3. /\ Held'[mem.prev] = Held[mem.prev] \ {n}
        /\ \A q \in Runs \ {mem.prev} : Held'[q] = Held[q]
    BY <1>2, <2>2
  <2>4. PortInv'
    BY <2>3, PortKept
  <2>5. Owned(jr)' /\ Served'[jr.prev] \subseteq jr.roles
    BY <1>1, <1>2, <2>2, <2>3 DEF IInv, MemoryInv, JournalInv, Owned
  <2>6. pc' = "retire" /\ mem' = mem /\ cmd' = cmd
    BY <1>6 DEF Step
  <2>7. CompletionInv'
    BY <1>1, <1>2, <2>2, <2>3, <2>6 DEF CompletionInv, Completing
  <2>8. CandidateInv' /\ RollbackInv'
    BY <2>6 DEF CandidateInv, RollbackInv, Staging, Creating, Cutting, Giving, Rolling,
       Reseeding, Halting, Cleaning
  <2>9. "retire" \in Labels \ {"idle"}
    BY DEF Labels
  <2> QED
    BY <1>1, <1>2, <1>4, <1>6, <2>2, <2>4, <2>5, <2>7, <2>8, <2>9, Unsaved
<1> QED
  BY <1>5, <1>6 DEF Retire

LEMMA ForgetStep ==
  ASSUME IInv, Forget
  PROVE  IInv'
<1>1. /\ pc = "forget" /\ pc' = "idle" /\ jr' = NoJournal /\ mem' = NoJournal
      /\ UNCHANGED <<dockerVars, disk, cmd, calm>>
  BY DEF Forget, Step
<1>2. Held' = Held /\ objs' = objs /\ running' = running
  BY <1>1, Nothing DEF dockerVars
<1>3. TypeInv'
  BY <1>1, <1>2 DEF IInv, TypeInv, TypeOK, Labels, Idle
<1>4. PortInv' /\ JournalInv' /\ MemoryInv'
  BY <1>1, <1>2 DEF IInv, PortInv, JournalInv, MemoryInv
<1>5. SteadyInv'
  BY <1>1, <1>2 DEF IInv, CompletionInv, SteadyInv, Only
<1>6. CandidateInv' /\ CompletionInv' /\ RollbackInv'
  BY <1>1 DEF CandidateInv, CompletionInv, RollbackInv, Staging, Creating, Cutting, Giving,
     Completing, Rolling, Reseeding, Halting
<1> QED
  BY <1>3, <1>4, <1>5, <1>6 DEF IInv

LEMMA AbandonStep ==
  ASSUME IInv, Abandon
  PROVE  IInv'
<1> DEFINE m == WithCandidate(mem)
<1>1. PICK p \in {"abandoning", "abandoned"} : Step(p, m)
  BY DEF Abandon
<1>2. /\ pc = "abandon" /\ pc # "idle" /\ pc' = p /\ cmd' = cmd
      /\ UNCHANGED <<objs, disk, jr>> /\ running' \subseteq running
  BY <1>1 DEF Abandon, dockerVars, Step
<1>3. Of(mem.cand) \in SUBSET Names
  BY DEF Of
<1>4. /\ m \in Journal /\ m.phase = mem.phase /\ m.roles = mem.roles /\ m.prev = mem.prev
      /\ m.cand = mem.cand /\ m.prevRes = mem.prevRes
  BY <1>2, <1>3, InCommand DEF WithCandidate, Journal
<1>5. cmd = "update" /\ jr.phase = "staged"
  BY <1>2 DEF IInv, CandidateInv, Giving
<1>6. CandidateInv' /\ CompletionInv' /\ RollbackInv'
  BY <1>2, <1>5 DEF CandidateInv, CompletionInv, RollbackInv, Staging, Creating, Cutting,
     Giving, Completing, Rolling, Reseeding, Halting
<1> HIDE DEF m
<1>7. p \in Labels \ {"idle"} /\ Fixed(m) = Fixed(mem) /\ OneGateway(m.prevRes)
  BY <1>1, <1>2, <1>4, InCommand DEF Labels, Replacing, Fixed
<1> QED
  BY <1>1, <1>2, <1>4, <1>6, <1>7, CalmStep

LEMMA JudgeStep ==
  ASSUME IInv, JudgeMatch \/ JudgeMismatch
  PROVE  IInv'
<1>1. /\ pc = "judge" /\ pc # "idle" /\ jr.phase = "ready"
      /\ UNCHANGED <<objs, disk, jr, running>> /\ UNCHANGED dockerVars
  BY DEF JudgeMatch, JudgeMismatch, dockerVars, IInv, CompletionInv
<1>2. CASE JudgeMatch
  <2> DEFINE m == WithCandidate(mem)
  <2>1. Step("publish", m) /\ pc' = "publish" /\ mem' = m /\ cmd' = cmd
    BY <1>2 DEF JudgeMatch, Step
  <2>2. Of(mem.cand) \in SUBSET Names /\ Held[mem.cand] = Of(mem.cand)
        /\ Served[mem.cand] = UpRoles(mem.cand)
    BY <1>1, InCommand DEF Of, Held, Served
  <2>3. /\ m \in Journal /\ m.phase = mem.phase /\ m.roles = mem.roles /\ m.prev = mem.prev
        /\ m.cand = mem.cand /\ m.prevRes = mem.prevRes /\ m.candRes = Held[mem.cand]
    BY <1>1, <2>2, InCommand DEF WithCandidate, Journal
  <2>4. Complete(m.candRes) /\ UpRoles(m.cand) = m.roles
    BY <1>2 DEF JudgeMatch, Matches
  <2> HIDE DEF m
  <2>5. Whole(m.candRes) /\ Served[m.cand] = m.roles
    BY <2>2, <2>3, <2>4, CompleteMeans
  <2>6. Held' = Held /\ Served' = Served
    BY <1>1, Nothing
  <2>7. CompletionInv'
    BY <1>1, <2>1, <2>3, <2>5, <2>6 DEF CompletionInv, Completing
  <2>8. CandidateInv' /\ RollbackInv'
    BY <2>1 DEF CandidateInv, RollbackInv, Staging, Creating, Cutting, Giving, Rolling,
       Reseeding, Halting, Cleaning
  <2>9. "publish" \in Labels \ {"idle"} /\ Fixed(m) = Fixed(mem) /\ OneGateway(m.prevRes)
    BY <1>1, <2>3, InCommand DEF Labels, Replacing, Fixed
  <2> QED
    BY <1>1, <2>1, <2>3, <2>7, <2>8, <2>9, CalmStep
<1>3. CASE JudgeMismatch
  <2>1. Step("restore", mem) /\ pc' \in Elsewhere /\ pc' # "seederGone"
    BY <1>3 DEF JudgeMismatch, Step, Elsewhere
  <2>2. "restore" \in Labels \ {"idle"}
    BY DEF Labels
  <2> QED
    BY <1>1, <2>1, <2>2, InCommand, ElsewhereKeeps, CalmStep
<1> QED
  BY <1>2, <1>3

-----------------------------------------------------------------------------
(* The other way.                                                          *)

\* What adoption makes of the record of the previous run.
LEMMA Adoption ==
  ASSUME TypeInv, PortInv, NEW m \in Journal, OneGateway(m.prevRes)
  PROVE  LET a == WithPrevious(WithCandidate(m))
         IN  /\ a \in Journal /\ a.phase = m.phase /\ a.roles = m.roles
             /\ a.prev = m.prev /\ a.cand = m.cand
             /\ a.candRes = Held[m.cand]
             /\ Fixed(a) = Fixed(m) /\ OneGateway(a.prevRes)
             /\ Held[m.prev] \cap Replaceable \subseteq a.prevRes
<1> DEFINE c    == WithCandidate(m)
           here == Of(m.prev) \cap Replaceable
           kept == m.prevRes \ (IF here \cap Reviewed = {} THEN {"seeder"} ELSE Replaceable)
           a    == [c EXCEPT !.prevRes = kept \cup here]
<1>1. /\ m.prev \in Runs /\ m.cand \in Runs /\ m.prevRes \in SUBSET Names
      /\ Of(m.prev) \in SUBSET Names /\ Of(m.cand) \in SUBSET Names
      /\ Held[m.prev] = Of(m.prev) /\ Held[m.cand] = Of(m.cand)
  BY DEF Journal, Of, Held
<1>2. /\ c \in Journal /\ c.phase = m.phase /\ c.roles = m.roles /\ c.prev = m.prev
      /\ c.cand = m.cand /\ c.prevRes = m.prevRes /\ c.candRes = Of(m.cand)
  BY <1>1 DEF WithCandidate, Journal
<1>3. WithPrevious(c) = a
  BY <1>2 DEF WithPrevious, Replaceable
<1>4. kept \cup here \in SUBSET Names
  BY <1>1
<1> HIDE DEF c, kept, here
<1>5. /\ a \in Journal /\ a.phase = m.phase /\ a.roles = m.roles /\ a.prev = m.prev
      /\ a.cand = m.cand /\ a.prevRes = kept \cup here /\ a.candRes = Of(m.cand)
  BY <1>2, <1>4 DEF Journal
<1>6. Fixed(a) = Fixed(m)
  <2>1. Reviewed \subseteq Replaceable /\ "seeder" \in Replaceable
    BY DEF Replaceable
  <2> QED
    BY <1>5, <2>1 DEF Fixed, kept, here
<1>7. OneGateway(kept \cup here)
  <2>1. PICK g \in Reviewed : m.prevRes \cap Reviewed = {g}
    BY DEF OneGateway
  <2>2. "seeder" \notin Reviewed /\ Reviewed \subseteq Replaceable
    BY DEF Reviewed, Replaceable
  <2>3. CASE here \cap Reviewed = {}
    BY <2>1, <2>2, <2>3 DEF kept, OneGateway
  <2>4. CASE here \cap Reviewed # {}
    <3>1. PICK h \in Reviewed : h \in Held[m.prev]
      BY <1>1, <2>4 DEF here
    <3>2. Held[m.prev] \cap Reviewed = {h}
      BY <1>1, <3>1 DEF PortInv
    <3>3. (kept \cup here) \cap Reviewed = {h}
      BY <1>1, <2>2, <2>4, <3>2 DEF kept, here
    <3> QED
      BY <3>3 DEF OneGateway
  <2> QED
    BY <2>3, <2>4
<1>8. Held[m.prev] \cap Replaceable \subseteq a.prevRes
  BY <1>1, <1>5 DEF here
<1> HIDE DEF a
<1>9. WithPrevious(WithCandidate(m)) = a
  BY <1>3 DEF c
<1> QED
  BY <1>1, <1>5, <1>6, <1>7, <1>8, <1>9

LEMMA RestoreStep ==
  ASSUME IInv, Restore
  PROVE  IInv'
<1> DEFINE m == WithPrevious(WithCandidate(mem))
<1>1. /\ pc = "restore" /\ pc # "idle" /\ Step("adopted", m) /\ pc' \in Elsewhere
      /\ UNCHANGED <<objs, disk, jr, running>> /\ pc' # "seederGone"
  BY DEF Restore, dockerVars, Step, Elsewhere
<1>2. /\ m \in Journal /\ m.phase = mem.phase /\ m.roles = mem.roles /\ m.prev = mem.prev
      /\ m.cand = mem.cand /\ Fixed(m) = Fixed(mem) /\ OneGateway(m.prevRes)
  BY <1>1, InCommand, Adoption DEF IInv
<1>3. "adopted" \in Labels \ {"idle"}
  BY DEF Labels, AfterSave
<1> HIDE DEF m
<1> QED
  BY <1>1, <1>2, <1>3, ElsewhereKeeps, CalmStep

LEMMA SeederStep ==
  ASSUME IInv, DropSeeder
  PROVE  IInv'
<1>1. pc = "oldSeeder" /\ pc # "idle" /\ UNCHANGED <<disk, jr>> /\ TypeInv
  BY DEF DropSeeder, IInv
<1>2. CASE Stop(mem.prev, "app") /\ Step("oldSeeder", mem)
  <2>1. UNCHANGED <<objs, disk, jr>> /\ running' \subseteq running
    BY <1>1, <1>2 DEF Stop
  <2>2. pc' \in Elsewhere /\ pc' # "seederGone" /\ "oldSeeder" \in Labels \ {"idle"}
    BY <1>2 DEF Step, Elsewhere, Labels
  <2> QED
    BY <1>1, <1>2, <2>1, <2>2, InCommand, ElsewhereKeeps, CalmStep
<1>3. CASE /\ Remove(mem.prev, "seeder")
           /\ Step(IF cmd = "clean" THEN "dropped" ELSE "seederGone",
                   [mem EXCEPT !.prevRes = @ \ {"seeder"}])
  <2> DEFINE m == [mem EXCEPT !.prevRes = mem.prevRes \ {"seeder"}]
  <2>1. PICK p \in {"dropped", "seederGone"} :
           Step(p, m) /\ (cmd = "clean" => p = "dropped")
    BY <1>3
  <2>2. /\ m \in Journal /\ m.phase = mem.phase /\ m.roles = mem.roles /\ m.prev = mem.prev
        /\ m.cand = mem.cand /\ m.prevRes = mem.prevRes \ {"seeder"}
    BY <1>1, InCommand DEF Journal
  <2> HIDE DEF m
  <2>3. Fixed(m) = Fixed(mem) /\ OneGateway(m.prevRes)
    <3>1. "seeder" \in Replaceable /\ "seeder" \notin Reviewed
      BY DEF Replaceable, Reviewed
    <3> QED
      BY <1>1, <2>2, <3>1, InCommand DEF Fixed, OneGateway
  <2>4. "seeder" \in Names /\ mem.prev \in Runs
    BY <1>1, InCommand DEF Names
  <2>5. /\ Held' = [Held EXCEPT ![mem.prev] = @ \ {"seeder"}] /\ Typed(objs', running')
        /\ \A q \in Runs : Served'[q] \subseteq Served[q]
    BY <1>1, <1>3, <2>4, Removal DEF Typed, TypeInv, Remove
  <2>6. /\ Held'[mem.prev] = Held[mem.prev] \ {"seeder"}
        /\ \A q \in Runs \ {mem.prev} : Held'[q] = Held[q]
    BY <1>1, <2>5, InCommand
  <2>7. PortInv'
    BY <2>6, PortKept
  <2>8. /\ Owned(jr)' /\ Served'[jr.prev] \subseteq jr.roles
        /\ jr.phase # "ready" => Fixed(jr) \subseteq Held'[jr.prev]
    BY <1>1, <2>5, <2>6, InCommand DEF IInv, MemoryInv, JournalInv, Owned, Fixed, Replaceable
  <2>9. pc' \in Elsewhere /\ (cmd' = "clean" => pc' # "seederGone") /\ p \in Labels \ {"idle"}
    BY <2>1 DEF Step, Elsewhere, Labels, AfterSave, AfterStore
  <2>10. CandidateInv' /\ CompletionInv' /\ RollbackInv'
    BY <2>9, ElsewhereKeeps
  <2>11. disk' \in RunState /\ disk'.run \in {jr.prev, jr.cand}
    BY <1>1 DEF IInv, TypeInv, TypeOK, MemoryInv
  <2> QED
    BY <1>1, <2>1, <2>2, <2>3, <2>5, <2>7, <2>8, <2>9, <2>10, <2>11, Unsaved
<1> QED
  BY <1>2, <1>3 DEF DropSeeder

LEMMA HoldsStep ==
  ASSUME IInv, PreviousHolds
  PROVE  IInv'
<1>1. /\ pc = "oldSeeder" /\ pc # "idle" /\ Step("discard", mem) /\ pc' = "discard"
      /\ cmd' = cmd /\ mem' = mem /\ UNCHANGED dockerVars
      /\ UNCHANGED <<objs, disk, jr>> /\ running' \subseteq running
      /\ (cmd # "clean" => mem.prevRes \ Reviewed \subseteq Of(mem.prev))
  BY DEF PreviousHolds, Step, dockerVars
<1>2. ASSUME cmd # "clean" PROVE Deployed \subseteq Held[jr.prev]
  <2>1. Deployed \subseteq Fixed(jr)
    BY <1>1 DEF IInv, MemoryInv, JournalInv, Fixed, Deployed, Replaceable, Reviewed
  <2>2. Fixed(mem) \subseteq Held[mem.prev]
    BY <1>1, <1>2, InCommand DEF Fixed, Replaceable, Held
  <2> QED
    BY <1>1, <2>1, <2>2, InCommand
<1>3. Held' = Held
  BY <1>1, Nothing
<1>4. RollbackInv'
  BY <1>1, <1>2, <1>3 DEF RollbackInv, Rolling, Reseeding, Halting, Cleaning
<1>5. CandidateInv' /\ CompletionInv' /\ "discard" \in Labels \ {"idle"}
  BY <1>1 DEF CandidateInv, CompletionInv, Staging, Creating, Cutting, Giving, Completing, Labels
<1> QED
  BY <1>1, <1>4, <1>5, InCommand, CalmStep

LEMMA DiscardStep ==
  ASSUME IInv, Discard
  PROVE  IInv'
<1>1. pc \in {"discard", "abandoning"} /\ pc # "idle" /\ UNCHANGED <<disk, jr>> /\ NoOrphans(mem)
  BY DEF Discard
<1>2. /\ mem.prev \in Runs /\ mem.cand \in Runs /\ mem.prev # mem.cand /\ mem \in Journal
      /\ Held \in [Runs -> SUBSET Names] /\ OneGateway(mem.prevRes) /\ TypeInv
      /\ mem.prev = jr.prev /\ mem.cand = jr.cand /\ jr \in Journal
  BY <1>1, InCommand DEF IInv
<1>3. Held[mem.prev] \subseteq mem.prevRes
  BY <1>1, <1>2, NoOrphansMeans DEF Confined
<1>4. ASSUME NEW n \in Leaving(Of(mem.cand)), Remove(mem.cand, n), Step(pc, mem)
      PROVE  IInv'
  <2>1. n \in Names
    BY <1>4 DEF Leaving, Of
  <2>2. /\ Held' = [Held EXCEPT ![mem.cand] = @ \ {n}] /\ Typed(objs', running')
        /\ \A q \in Runs : Served'[q] \subseteq Served[q]
    BY <1>2, <1>4, <2>1, Removal DEF Typed, TypeInv, Remove
  <2>3. /\ Held'[mem.cand] = Held[mem.cand] \ {n}
        /\ \A q \in Runs \ {mem.cand} : Held'[q] = Held[q]
    BY <1>2, <2>2
  <2>4. PortInv'
    BY <2>3, PortKept
  <2>5. /\ Owned(jr)' /\ Served'[jr.prev] \subseteq jr.roles
        /\ jr.phase # "ready" => Fixed(jr) \subseteq Held'[jr.prev]
    BY <1>1, <1>2, <2>2, <2>3 DEF IInv, MemoryInv, JournalInv, Owned
  <2>6. pc' = pc /\ mem' = mem /\ cmd' = cmd
    BY <1>4 DEF Step
  <2>7. CandidateInv' /\ CompletionInv'
    BY <1>1, <2>6 DEF IInv, CandidateInv, CompletionInv, Staging, Creating, Cutting, Giving,
       Completing
  <2>8. RollbackInv'
    BY <1>1, <1>2, <2>3, <2>6 DEF IInv, RollbackInv, Rolling, Reseeding, Halting
  <2>9. pc \in Labels \ {"idle"} /\ disk' \in RunState /\ disk'.run \in {jr.prev, jr.cand}
    BY <1>1 DEF IInv, TypeInv, TypeOK, MemoryInv
  <2> QED
    BY <1>1, <1>2, <1>4, <2>2, <2>4, <2>5, <2>7, <2>8, <2>9, Unsaved
<1>5. ASSUME Of(mem.cand) = {}, UNCHANGED dockerVars,
             IF pc = "abandoning" THEN Step("restore", jr)
             ELSE Step(IF cmd = "clean" THEN "survive" ELSE "oldGateway", mem)
      PROVE  IInv'
  <2>1. Held' = Held /\ UNCHANGED objs /\ running' \subseteq running /\ Held[mem.cand] = {}
    BY <1>2, <1>5, Nothing DEF dockerVars, Held
  <2>2. CASE pc = "abandoning"
    <3>1. Step("restore", jr) /\ pc' \in Elsewhere /\ pc' # "seederGone" /\ "restore" \in Labels \ {"idle"}
      BY <1>5, <2>2 DEF Step, Elsewhere, Labels
    <3>2. /\ jr.phase = mem.phase /\ jr.roles = mem.roles /\ Fixed(jr) = Fixed(mem)
          /\ OneGateway(jr.prevRes)
      BY <1>1 DEF IInv, MemoryInv, JournalInv
    <3> QED
      BY <1>1, <1>2, <2>1, <3>1, <3>2, ElsewhereKeeps, CalmStep
  <2>3. CASE pc = "discard"
    <3>1. PICK p \in {"survive", "oldGateway"} :
             Step(p, mem) /\ (p = "survive" <=> cmd = "clean")
      BY <1>5, <2>3
    <3>2. pc' = p /\ mem' = mem /\ cmd' = cmd
      BY <3>1 DEF Step
    <3>3. RollbackInv'
      BY <1>3, <2>1, <3>1, <3>2 DEF RollbackInv, Rolling, Reseeding, Halting, Cleaning
    <3>4. CandidateInv' /\ CompletionInv' /\ p \in Labels \ {"idle"}
      BY <3>1, <3>2 DEF CandidateInv, CompletionInv, Staging, Creating, Cutting, Giving,
         Completing, Labels
    <3> QED
      BY <1>1, <1>2, <2>1, <3>1, <3>3, <3>4, CalmStep
  <2> QED
    BY <1>1, <2>2, <2>3
<1> QED
  BY <1>4, <1>5 DEF Discard

LEMMA SurviveStep ==
  ASSUME IInv, Survive
  PROVE  IInv'
<1>1. /\ pc = "survive" /\ pc # "idle" /\ Step("forget", mem) /\ UNCHANGED jr
      /\ disk' = [run |-> mem.prev, res |-> mem.prevRes \cap Of(mem.prev)]
      /\ pc' = "forget" /\ mem' = mem /\ cmd' = cmd
      /\ UNCHANGED objs /\ running' \subseteq running /\ UNCHANGED dockerVars
  BY DEF Survive, Step, dockerVars
<1>2. /\ mem.prev \in Runs /\ mem.cand \in Runs /\ mem.prev # mem.cand /\ mem \in Journal
      /\ mem.prev = jr.prev /\ mem.cand = jr.cand /\ OneGateway(mem.prevRes)
      /\ mem.prevRes \in SUBSET Names
  BY <1>1, InCommand
<1>3. /\ cmd = "clean" /\ Held[mem.cand] = {} /\ Held[mem.prev] \subseteq mem.prevRes
      /\ Held' = Held /\ Served' = Served
  BY <1>1, Nothing DEF IInv, RollbackInv
<1>4. disk'.run = mem.prev /\ disk'.res = Held[mem.prev] /\ disk' \in RunState
  BY <1>1, <1>2, <1>3 DEF Held, RunState
<1>5. Only(mem.prev, Held[mem.prev]) /\ Served[mem.prev] \subseteq jr.roles
  BY <1>1, <1>2, <1>3 DEF IInv, MemoryInv, JournalInv, Owned, Only
<1>6. CompletionInv'
  BY <1>1, <1>2, <1>3, <1>4, <1>5 DEF CompletionInv, Completing, Only
<1>7. CandidateInv' /\ RollbackInv' /\ "forget" \in Labels \ {"idle"}
  BY <1>1 DEF CandidateInv, RollbackInv, Staging, Creating, Cutting, Giving, Rolling,
     Reseeding, Halting, Cleaning, Labels
<1> QED
  BY <1>1, <1>2, <1>4, <1>6, <1>7, Calm, Unsaved
-----------------------------------------------------------------------------
(* The previous run is brought back.                                       *)

LEMMA InRolling ==
  ASSUME IInv, pc \in Rolling
  PROVE  /\ pc # "idle" /\ cmd # "clean" /\ TypeInv
         /\ Held[mem.cand] = {} /\ Held[mem.prev] \subseteq mem.prevRes
         /\ \A q \in Runs \ {mem.prev} : Held[q] = {}
         /\ Served[mem.prev] \subseteq mem.roles
         /\ mem = [mem EXCEPT !.prevRes = mem.prevRes]
<1>1. pc # "idle" /\ pc \notin Cleaning
  BY DEF Rolling, Reseeding, Cleaning
<1>2. cmd # "clean" /\ Held[mem.cand] = {} /\ Held[mem.prev] \subseteq mem.prevRes
  BY <1>1 DEF IInv, RollbackInv
<1>3. Owned(jr) /\ Served[jr.prev] \subseteq jr.roles
  BY <1>1 DEF IInv, MemoryInv, JournalInv
<1> QED
  BY <1>1, <1>2, <1>3, InCommand DEF IInv, Owned, Journal

\* A step that touches the previous run only.
LEMMA Roll ==
  ASSUME IInv, pc \in Rolling, NEW p \in Rolling \cup Halting, NEW P \in SUBSET Names,
         Step(p, [mem EXCEPT !.prevRes = P]), UNCHANGED <<disk, jr>>,
         Typed(objs', running'),
         \A q \in Runs \ {mem.prev} : Held'[q] = Held[q],
         Held[mem.prev] \ Replaceable \subseteq Held'[mem.prev],
         Held'[mem.prev] \subseteq P \cup Replaceable,
         p \in Rolling => Held'[mem.prev] \subseteq P,
         P \ Replaceable = Fixed(mem), OneGateway(P),
         Served'[mem.prev] \subseteq mem.roles, PortInv',
         p \in Reseeding => "app" \in mem.roles
  PROVE  IInv'
<1> DEFINE m == [mem EXCEPT !.prevRes = P]
<1>1. p \in Labels \ {"idle"}
  BY DEF Rolling, Halting, Labels, AfterSave, AfterStore, Reseeding
<1>2. /\ m \in Journal /\ m.phase = mem.phase /\ m.roles = mem.roles /\ m.prev = mem.prev
      /\ m.cand = mem.cand /\ m.prevRes = P /\ m.candRes = mem.candRes
  BY InRolling, InCommand DEF Journal
<1>3. pc' = p /\ mem' = m /\ cmd' = cmd
  BY DEF Step
<1>4. /\ mem.prev \in Runs /\ mem.cand \in Runs /\ mem.prev # mem.cand
      /\ mem.prev = jr.prev /\ mem.cand = jr.cand /\ mem.roles = jr.roles
      /\ Fixed(mem) = Fixed(jr)
  BY InRolling, InCommand
<1>5. Owned(jr)' /\ Served'[jr.prev] \subseteq jr.roles
  <2>1. Held'[jr.prev] \subseteq jr.prevRes \cup Replaceable
    BY <1>4 DEF Fixed
  <2>2. \A q \in Runs \ {jr.prev, jr.cand} : Held'[q] = {}
    BY <1>4, InRolling
  <2> QED
    BY <1>4, <2>1, <2>2 DEF Owned
<1>6. jr.phase # "ready" => Fixed(jr) \subseteq Held'[jr.prev]
  <2>1. jr.phase # "ready" => Fixed(jr) \subseteq Held[jr.prev]
    BY InRolling DEF IInv, MemoryInv, JournalInv
  <2>2. Fixed(jr) \cap Replaceable = {}
    BY DEF Fixed
  <2> QED
    BY <1>4, <2>1, <2>2
<1>7. RollbackInv'
  <2>1. Held'[mem.cand] = {}
    BY <1>4, InRolling
  <2>2. cmd # "clean" /\ p # "survive" /\ p # "discard"
    BY InRolling DEF Rolling, Reseeding, Halting
  <2> QED
    BY <1>2, <1>3, <2>1, <2>2 DEF RollbackInv
<1>8. CandidateInv' /\ CompletionInv'
  BY <1>3 DEF CandidateInv, CompletionInv, Staging, Creating, Cutting, Giving, Completing,
     Rolling, Reseeding, Halting
<1>9. Fixed(m) = Fixed(mem) /\ OneGateway(m.prevRes)
  BY <1>2 DEF Fixed
<1>10. disk' \in RunState /\ disk'.run \in {jr.prev, jr.cand} /\ Step(p, m)
  BY InRolling DEF IInv, TypeInv, TypeOK, MemoryInv
<1> HIDE DEF m
<1> QED
  BY <1>1, <1>2, <1>5, <1>6, <1>7, <1>8, <1>9, <1>10, InRolling, Unsaved

\* The same of one that leaves the record alone and creates nothing.
LEMMA RollOn ==
  ASSUME IInv, pc \in Rolling, NEW p \in Rolling, Step(p, mem), UNCHANGED <<disk, jr>>,
         Typed(objs', running'), Held' = Held, Served'[mem.prev] \subseteq mem.roles,
         p \in Reseeding => "app" \in mem.roles
  PROVE  IInv'
<1>1. PortInv'
  BY PortKept
<1>2. /\ mem.prevRes \in SUBSET Names /\ OneGateway(mem.prevRes)
      /\ mem.prevRes \ Replaceable = Fixed(mem)
  BY InRolling, InCommand DEF Fixed
<1>3. Step(p, [mem EXCEPT !.prevRes = mem.prevRes])
  BY InRolling
<1>4. p \in Rolling \cup Halting /\ Held[mem.prev] \subseteq mem.prevRes
  BY InRolling
<1> QED
  BY <1>1, <1>2, <1>3, <1>4, Roll

LEMMA ReopenStep ==
  ASSUME IInv, ReopenOld
  PROVE  IInv'
<1>1. pc = "oldGateway" /\ pc \in Rolling /\ UNCHANGED <<disk, jr>>
  BY DEF ReopenOld, Rolling
<1>2. CASE Step("roles", mem) /\ UNCHANGED dockerVars
  <2>1. Typed(objs', running') /\ Held' = Held /\ Served' = Served
    BY <1>1, <1>2, InRolling, Nothing DEF dockerVars, Typed, TypeInv, TypeOK
  <2>2. "roles" \in Rolling /\ "roles" \notin Reseeding
    BY DEF Rolling, Reseeding
  <2> QED
    BY <1>1, <1>2, <2>1, <2>2, InRolling, RollOn
<1>3. ASSUME NEW g \in Reviewed \ mem.prevRes,
             ~(mem.prevRes \cap Reviewed \subseteq Of(mem.prev)), Create(mem.prev, g),
             Step("reopened", [mem EXCEPT !.prevRes = (@ \ Reviewed) \cup {g}])
      PROVE  IInv'
  <2> DEFINE P == (mem.prevRes \ Reviewed) \cup {g}
  <2>1. g \in Names /\ g \in Reviewed /\ P \in SUBSET Names /\ mem.prev \in Runs
    BY <1>1, InRolling, InCommand DEF Names, Gateways
  <2>2. /\ Held' = [Held EXCEPT ![mem.prev] = @ \cup {g}] /\ Served' = Served
        /\ Typed(objs', running')
    BY <1>1, <1>3, <2>1, InRolling, Creation DEF Typed, TypeInv, Create
  <2>3. /\ Held'[mem.prev] = Held[mem.prev] \cup {g}
        /\ \A q \in Runs \ {mem.prev} : Held'[q] = Held[q]
    BY <1>1, <2>2, InRolling, InCommand
  <2>4. Held[mem.prev] \cap Reviewed = {}
    <3>1. PICK h \in Reviewed : mem.prevRes \cap Reviewed = {h}
      BY <1>1, InRolling, InCommand DEF OneGateway
    <3>2. h \notin Held[mem.prev] /\ Held[mem.prev] \subseteq mem.prevRes
      BY <1>1, <1>3, <2>1, <3>1, InRolling DEF Held
    <3> QED
      BY <3>1, <3>2
  <2>5. PortInv'
    BY <1>1, <2>3, <2>4, InRolling DEF PortInv
  <2>6. P \cap Reviewed = {g} /\ OneGateway(P) /\ P \ Replaceable = Fixed(mem)
    BY <2>1 DEF OneGateway, Fixed, Replaceable
  <2>7. Held'[mem.prev] \subseteq P
    BY <1>1, <2>3, <2>4, InRolling
  <2>8. "reopened" \in Rolling /\ "reopened" \notin Reseeding /\ Held[mem.prev] \subseteq Held'[mem.prev]
    BY <2>3 DEF Rolling, Reseeding
  <2>9. Step("reopened", [mem EXCEPT !.prevRes = P]) /\ Served'[mem.prev] \subseteq mem.roles
    BY <1>1, <1>3, <2>2, InRolling
  <2> HIDE DEF P
  <2> QED
    BY <1>1, <2>1, <2>2, <2>3, <2>5, <2>6, <2>7, <2>8, <2>9, Roll
<1> QED
  BY <1>2, <1>3 DEF ReopenOld

LEMMA RolesStep ==
  ASSUME IInv, StopExtra \/ RolesRestored
  PROVE  IInv'
<1>1. /\ pc = "roles" /\ pc \in Rolling /\ UNCHANGED <<disk, jr, objs>>
      /\ running' \subseteq running
  BY DEF StopExtra, RolesRestored, Rolling, Stop, dockerVars
<1>2. PICK p \in {"roles", "reseed", "startOld"} :
         Step(p, mem) /\ (p = "reseed" => "app" \in mem.roles)
  BY DEF StopExtra, RolesRestored
<1>3. /\ Held' = Held /\ Typed(objs', running')
      /\ Served'[mem.prev] \subseteq mem.roles
  <2>1. mem.prev \in Runs /\ TypeInv /\ Served[mem.prev] \subseteq mem.roles
    BY <1>1, InRolling, InCommand
  <2> QED
    BY <1>1, <2>1, Stopping DEF Typed, TypeInv, TypeOK
<1>4. p \in Rolling /\ (p \in Reseeding => "app" \in mem.roles)
  BY <1>2 DEF Rolling, Reseeding
<1> QED
  BY <1>1, <1>2, <1>3, <1>4, RollOn

LEMMA ReseedStep ==
  ASSUME IInv, Reseed \/ Unseed
  PROVE  IInv'
<1>1. pc \in {"reseed", "restarted"} /\ pc \in Rolling /\ pc \in Reseeding /\ UNCHANGED <<disk, jr>>
  BY DEF Reseed, Unseed, Rolling, Reseeding
<1>2. /\ mem.prev \in Runs /\ "seeder" \in Names /\ "app" \in mem.roles
      /\ mem.prevRes \in SUBSET Names /\ OneGateway(mem.prevRes) /\ TypeInv
      /\ Held \in [Runs -> SUBSET Names]
  BY <1>1, InRolling, InCommand DEF Names, IInv, RollbackInv
<1>3. "seeder" \in Replaceable /\ "seeder" \notin Reviewed
  BY DEF Replaceable, Reviewed
<1>4. CASE Reseed
  <2> DEFINE P == mem.prevRes \cup {"seeder"}
  <2>1. Create(mem.prev, "seeder") /\ Step("seeding", [mem EXCEPT !.prevRes = P])
    BY <1>4 DEF Reseed
  <2>2. /\ Held' = [Held EXCEPT ![mem.prev] = @ \cup {"seeder"}] /\ Served' = Served
        /\ Typed(objs', running')
    BY <1>2, <2>1, Creation DEF Typed, TypeInv, Create
  <2>3. /\ Held'[mem.prev] = Held[mem.prev] \cup {"seeder"}
        /\ \A q \in Runs \ {mem.prev} : Held'[q] = Held[q]
    BY <1>2, <2>2
  <2>4. PortInv'
    BY <1>2, <1>3, <2>3, PortKept
  <2>5. P \in SUBSET Names /\ OneGateway(P) /\ P \ Replaceable = Fixed(mem)
    BY <1>2, <1>3 DEF OneGateway, Fixed
  <2>6. Held'[mem.prev] \subseteq P /\ Held[mem.prev] \subseteq Held'[mem.prev]
    BY <1>1, <2>3, InRolling
  <2>7. "seeding" \in Rolling /\ Served'[mem.prev] \subseteq mem.roles
    BY <1>1, <2>2, InRolling DEF Rolling, Reseeding
  <2> HIDE DEF P
  <2> QED
    BY <1>1, <1>2, <2>1, <2>2, <2>3, <2>4, <2>5, <2>6, <2>7, Roll
<1>5. CASE Unseed
  <2> DEFINE P == mem.prevRes \ {"seeder"}
  <2>1. Remove(mem.prev, "seeder") /\ Step("seeded", [mem EXCEPT !.prevRes = P])
    BY <1>5 DEF Unseed
  <2>2. /\ Held' = [Held EXCEPT ![mem.prev] = @ \ {"seeder"}] /\ Typed(objs', running')
        /\ Served'[mem.prev] \subseteq Served[mem.prev]
    BY <1>2, <2>1, Removal DEF Typed, TypeInv, Remove
  <2>3. /\ Held'[mem.prev] = Held[mem.prev] \ {"seeder"}
        /\ \A q \in Runs \ {mem.prev} : Held'[q] = Held[q]
    BY <1>2, <2>2
  <2>4. PortInv'
    BY <2>3, PortKept
  <2>5. P \in SUBSET Names /\ OneGateway(P) /\ P \ Replaceable = Fixed(mem)
    BY <1>2, <1>3 DEF OneGateway, Fixed
  <2>6. Held'[mem.prev] \subseteq P /\ Held[mem.prev] \ Replaceable \subseteq Held'[mem.prev]
    BY <1>1, <1>3, <2>3, InRolling
  <2>7. "seeded" \in Rolling /\ Served'[mem.prev] \subseteq mem.roles
    BY <1>1, <2>2, InRolling DEF Rolling, Reseeding
  <2> HIDE DEF P
  <2> QED
    BY <1>1, <1>2, <2>1, <2>2, <2>3, <2>4, <2>5, <2>6, <2>7, Roll
<1> QED
  BY <1>4, <1>5

LEMMA StartStep ==
  ASSUME IInv, Restart \/ StartOld
  PROVE  IInv'
<1>1. /\ pc \in {"restart", "startSeeded", "startOld"} /\ pc \in Rolling /\ UNCHANGED <<disk, jr>>
      /\ pc \in Reseeding => "app" \in mem.roles
  BY DEF Restart, StartOld, Rolling, Reseeding, IInv, RollbackInv
<1>2. PICK p \in {"restarted", "starting", "final"} :
         Step(p, mem) /\ (p # "final" => pc \in Reseeding)
  BY <1>1 DEF Restart, StartOld, Reseeding
<1>3. p \in Rolling /\ (p \in Reseeding => "app" \in mem.roles)
  BY <1>1, <1>2 DEF Rolling, Reseeding
<1>4. mem.prev \in Runs /\ TypeInv /\ Served[mem.prev] \subseteq mem.roles
  BY <1>1, InRolling, InCommand
<1>5. ASSUME NEW n \in Startable, Start(mem.prev, n), RoleOf(n) \in mem.roles
      PROVE  /\ Held' = Held /\ Typed(objs', running')
             /\ Served'[mem.prev] \subseteq mem.roles
  BY <1>4, <1>5, Starting DEF Typed, TypeInv, TypeOK, Start
<1>6. ASSUME UNCHANGED dockerVars
      PROVE  /\ Held' = Held /\ Typed(objs', running')
             /\ Served'[mem.prev] \subseteq mem.roles
  BY <1>4, <1>6, Nothing DEF dockerVars, Typed, TypeInv, TypeOK
<1>7. CASE Restart
  <2>1. "app" \in Startable /\ RoleOf("app") = "app" /\ "app" \in mem.roles
    BY <1>1, <1>7 DEF Startable, RoleOf, Gateways, Reviewed, Restart, Reseeding
  <2>2. Start(mem.prev, "app")
    BY <1>7 DEF Restart
  <2> QED
    BY <1>1, <1>2, <1>3, <1>5, <2>1, <2>2, RollOn
<1>8. CASE StartOld
  <2>1. CASE "gateway" \in mem.roles \ UpRoles(mem.prev)
    <3>1. PICK g \in mem.prevRes \cap Reviewed : Start(mem.prev, g)
      BY <1>8, <2>1 DEF StartOld
    <3>2. g \in Startable /\ RoleOf(g) = "gateway"
      BY DEF Startable, Gateways, RoleOf
    <3>3. RoleOf(g) \in mem.roles
      BY <2>1, <3>2
    <3> QED
      BY <1>1, <1>2, <1>3, <1>5, <3>1, <3>2, <3>3, RollOn
  <2>2. CASE "gateway" \notin mem.roles \ UpRoles(mem.prev)
    <3>1. UNCHANGED dockerVars
      BY <1>8, <2>2 DEF StartOld
    <3> QED
      BY <1>1, <1>2, <1>3, <1>6, <3>1, RollOn
  <2> QED
    BY <2>1, <2>2
<1> QED
  BY <1>7, <1>8

LEMMA HaltStep ==
  ASSUME IInv, Halt
  PROVE  IInv'
<1> DEFINE P == mem.prevRes \ {"seeder"}
<1>1. /\ pc = "halt" /\ pc \in Rolling /\ UNCHANGED <<disk, jr>>
      /\ Step("halting", [mem EXCEPT !.prevRes = P])
      /\ objs \ {<<mem.prev, "seeder">>} \subseteq objs' /\ objs' \subseteq objs
  BY DEF Halt, Rolling
<1>2. PICK stopped \in SUBSET ({mem.prev} \X Up(mem.prev)) : running' = running \ stopped
  BY DEF Halt
<1>3. /\ mem.prev \in Runs /\ TypeInv /\ Served[mem.prev] \subseteq mem.roles
      /\ mem.prevRes \in SUBSET Names /\ OneGateway(mem.prevRes)
  BY <1>1, InRolling, InCommand
<1>4. Typed(objs', running')
  <2>1. \A n \in Names : <<mem.prev, n>> \in running => <<mem.prev, n>> \in objs
    BY <1>3 DEF TypeInv, TypeOK
  <2>2. <<mem.prev, "seeder">> \notin running
    BY <1>3 DEF TypeInv, Startable, Gateways, Reviewed
  <2> QED
    BY <1>1, <1>2, <1>3, <2>2 DEF Typed, TypeInv, TypeOK
<1>5. Served'[mem.prev] \subseteq mem.roles
  BY <1>2, <1>3, Loss
<1>6. \A q \in Runs : Held'[q] \subseteq Held[q] /\ Held[q] \ {"seeder"} \subseteq Held'[q]
  BY <1>1 DEF Held, Of
<1>7. \A q \in Runs \ {mem.prev} : Held'[q] = Held[q]
  <2>1. \A q \in Runs \ {mem.prev} : Held[q] = {}
    BY <1>1, InRolling
  <2> QED
    BY <1>6, <2>1
<1>8. PortInv'
  BY <1>6, PortKept
<1>9. "seeder" \in Replaceable /\ "seeder" \notin Reviewed
  BY DEF Replaceable, Reviewed
<1>10. P \in SUBSET Names /\ OneGateway(P) /\ P \ Replaceable = Fixed(mem)
  BY <1>3, <1>9 DEF OneGateway, Fixed
<1>11. /\ Held[mem.prev] \ Replaceable \subseteq Held'[mem.prev]
       /\ Held'[mem.prev] \subseteq P \cup Replaceable
  BY <1>1, <1>3, <1>6, <1>9, InRolling
<1>12. "halting" \in Halting /\ "halting" \notin Rolling /\ "halting" \notin Reseeding
  BY DEF Halting, Rolling, Reseeding
<1> HIDE DEF P
<1> QED
  BY <1>1, <1>4, <1>5, <1>7, <1>8, <1>10, <1>11, <1>12, Roll

LEMMA RestoredStep ==
  ASSUME IInv, Restored
  PROVE  IInv'
<1>1. /\ pc = "final" /\ pc # "idle" /\ pc \in Rolling /\ Step("forget", mem) /\ UNCHANGED jr
      /\ disk' = [run |-> mem.prev, res |-> mem.prevRes]
      /\ mem.prevRes \subseteq Of(mem.prev) /\ Complete(mem.prevRes)
      /\ pc' = "forget" /\ mem' = mem /\ cmd' = cmd
      /\ UNCHANGED objs /\ running' \subseteq running /\ UNCHANGED dockerVars
  BY DEF Restored, Step, dockerVars, Rolling
<1>2. /\ mem.prev \in Runs /\ mem.cand \in Runs /\ mem.prev # mem.cand /\ mem \in Journal
      /\ mem.prev = jr.prev /\ mem.cand = jr.cand /\ mem.roles = jr.roles
      /\ OneGateway(mem.prevRes) /\ mem.prevRes \in SUBSET Names
  BY <1>1, InCommand
<1>3. Held' = Held /\ Served' = Served
  BY <1>1, Nothing
<1>4. Only(mem.prev, mem.prevRes) /\ Whole(mem.prevRes) /\ Served[mem.prev] \subseteq jr.roles
  <2>1. Held[mem.prev] = mem.prevRes
    BY <1>1, <1>2, InRolling DEF Held
  <2> QED
    BY <1>1, <1>2, <2>1, InRolling, CompleteMeans DEF Only
<1>5. disk'.run = mem.prev /\ disk'.res = mem.prevRes /\ disk' \in RunState
  BY <1>1, <1>2 DEF RunState
<1>6. CompletionInv'
  BY <1>1, <1>2, <1>3, <1>4, <1>5 DEF CompletionInv, Completing, Only
<1>7. CandidateInv' /\ RollbackInv' /\ "forget" \in Labels \ {"idle"}
  BY <1>1, InRolling DEF CandidateInv, RollbackInv, Staging, Creating, Cutting, Giving, Rolling,
     Reseeding, Halting, Cleaning, Labels
<1> QED
  BY <1>1, <1>2, <1>5, <1>6, <1>7, Calm, Unsaved

-----------------------------------------------------------------------------
(* Failure, and the beginning of a command.                                *)

LEMMA RaiseStep ==
  ASSUME IInv, Raise
  PROVE  IInv'
<1>1. /\ pc # "idle" /\ UNCHANGED dockerVars /\ UNCHANGED <<disk, jr, objs>>
      /\ running' \subseteq running
  BY DEF Raise, dockerVars
<1>2. Held' = Held
  BY <1>1, Nothing
<1>3. CASE Step("idle", NoJournal)
  BY <1>1, <1>3, Interrupted
<1>4. CASE cmd = "update" /\ pc \in Creating /\ Step("abandon", mem)
  <2>1. pc' = "abandon" /\ cmd' = cmd /\ mem' = mem /\ jr.phase = "staged"
    BY <1>4 DEF Step, IInv, CandidateInv, Staging
  <2>2. CandidateInv'
    BY <1>1, <1>4, <2>1 DEF CandidateInv, Staging, Creating, Cutting, Giving
  <2>3. CompletionInv' /\ RollbackInv' /\ "abandon" \in Labels \ {"idle"}
    BY <1>1, <1>4, <2>1 DEF IInv, CompletionInv, RollbackInv, Completing, Creating, Rolling, Reseeding,
       Halting, Cleaning, Labels, Replacing
  <2> QED
    BY <1>1, <1>4, <2>2, <2>3, InCommand, CalmStep
<1>5. CASE cmd = "update" /\ pc \in Replacing /\ Step("restore", jr)
  <2>1. /\ jr \in Journal /\ jr.phase = mem.phase /\ jr.roles = mem.roles /\ jr.prev = mem.prev
        /\ jr.cand = mem.cand /\ Fixed(jr) = Fixed(mem) /\ OneGateway(jr.prevRes)
    BY <1>1, InCommand DEF IInv, MemoryInv, JournalInv
  <2>2. pc' \in Elsewhere /\ pc' # "seederGone" /\ "restore" \in Labels \ {"idle"}
    BY <1>5 DEF Step, Elsewhere, Labels
  <2> QED
    BY <1>1, <1>5, <2>1, <2>2, ElsewhereKeeps, CalmStep
<1>6. CASE pc \in Reseeding /\ Step("halt", mem)
  <2>1. pc \in Rolling /\ "halt" \in Rolling /\ "halt" \notin Reseeding
    BY <1>6 DEF Rolling, Reseeding
  <2>2. Typed(objs', running') /\ Served'[mem.prev] \subseteq mem.roles
    BY <1>1, <2>1, InRolling, Nothing DEF Typed, TypeInv, TypeOK, dockerVars
  <2> QED
    BY <1>1, <1>2, <1>6, <2>1, <2>2, RollOn
<1> QED
  BY <1>3, <1>4, <1>5, <1>6 DEF Raise

LEMMA ExitStep ==
  ASSUME IInv, ContainerExits \/ CalmDown
  PROVE  IInv'
<1>1. /\ UNCHANGED <<objs, disk, jr, pc, cmd, mem>> /\ running' \subseteq running
      /\ calm' \in BOOLEAN
  BY DEF ContainerExits, CalmDown, dockerVars, IInv, TypeInv, TypeOK
<1>2. TypeInv'
  BY <1>1 DEF IInv, TypeInv, TypeOK
<1>3. Held' = Held /\ \A q \in Runs : Served'[q] \subseteq Served[q]
  BY <1>1, Stopping DEF IInv
<1>4. PortInv' /\ SteadyInv' /\ MemoryInv' /\ CandidateInv' /\ RollbackInv'
  BY <1>1, <1>3 DEF IInv, PortInv, SteadyInv, MemoryInv, CandidateInv, RollbackInv, Only
<1>5. JournalInv'
  BY <1>1, <1>3 DEF IInv, JournalInv, Owned, TypeInv, TypeOK, Journal
<1>6. CompletionInv'
  <2>1. pc \in Completing => mem.cand \in Runs
    BY InCommand DEF Completing
  <2>2. disk.run \in Runs
    BY DEF IInv, TypeInv, TypeOK, RunState
  <2> QED
    BY <1>1, <1>3, <2>1, <2>2 DEF IInv, CompletionInv, Only
<1> QED
  BY <1>2, <1>4, <1>5, <1>6 DEF IInv

\* Between commands only the files and the daemon count.
LEMMA Resting ==
  ASSUME pc = "idle"
  PROVE  CandidateInv /\ CompletionInv /\ RollbackInv
BY DEF CandidateInv, CompletionInv, RollbackInv, Staging, Creating, Cutting, Giving,
   Completing, Rolling, Reseeding, Halting

\* The state that an update starts from, given as the sets of objects.
LEMMA Settled ==
  ASSUME NEW r, r \in Runs, NEW res \in SUBSET Names, objs = {r} \X res,
         running \subseteq {r} \X (res \cap Startable), OneGateway(res),
         disk = [run |-> r, res |-> res], jr = NoJournal, pc = "idle", mem = NoJournal,
         calm \in BOOLEAN, cmd \in {"none", "update"} \cup Recovery, Whole(res)
  PROVE  IInv
<1>1. running \subseteq objs /\ running \subseteq Runs \X Startable /\ objs \subseteq Runs \X Names
  BY DEF Startable
<1>2. TypeInv
  BY <1>1, ConstantsAssumption DEF TypeInv, TypeOK, RunState, Labels, Idle
<1>3. Only(r, res)
  BY <1>2, OnlyMeans
<1>4. PortInv
  BY <1>3 DEF PortInv, Only, OneGateway
<1>5. SteadyInv /\ JournalInv /\ MemoryInv
  BY <1>3 DEF SteadyInv, JournalInv, MemoryInv
<1> QED
  BY <1>2, <1>4, <1>5, Resting DEF IInv

LEMMA Default == Whole(Deployed \cup {"gateway"}) /\ Deployed \cup {"gateway"} \in SUBSET Names
BY DEF Whole, Deployed, OneGateway, Reviewed, Names, Gateways

LEMMA InitStep ==
  ASSUME Init
  PROVE  IInv
<1> DEFINE res == Deployed \cup {"gateway"}
<1>1. PICK r \in Runs :
         /\ objs = {r} \X res /\ running \in SUBSET ({r} \X (res \cap Startable))
         /\ disk = [run |-> r, res |-> res]
         /\ jr = NoJournal /\ pc = "idle" /\ cmd = "none" /\ mem = NoJournal /\ calm = FALSE
  BY DEF Init
<1>2. Whole(res) /\ res \in SUBSET Names /\ OneGateway(res)
  BY Default DEF Whole
<1> HIDE DEF res
<1>3. running \subseteq {r} \X (res \cap Startable) /\ calm \in BOOLEAN
      /\ cmd \in {"none", "update"} \cup Recovery
  BY <1>1
<1> QED
  BY <1>1, <1>2, <1>3, Settled

LEMMA OtherStep ==
  ASSUME IInv, OtherCommand
  PROVE  IInv'
<1> DEFINE res == IF Complete(disk.res) THEN disk.res ELSE Deployed \cup {"gateway"}
<1>1. /\ disk' = [disk EXCEPT !.res = res] /\ objs' = {disk.run} \X res
      /\ running' \in SUBSET ({disk.run} \X (res \cap Startable))
      /\ pc = "idle" /\ jr = NoJournal /\ UNCHANGED <<jr, pc, cmd, mem, calm>>
  BY DEF OtherCommand
<1>2. disk \in RunState /\ disk.run \in Runs /\ disk.res \in SUBSET Names /\ mem = NoJournal
      /\ calm \in BOOLEAN /\ cmd \in {"none", "update"} \cup Recovery
  BY <1>1 DEF IInv, TypeInv, TypeOK, RunState, MemoryInv
<1>3. Whole(res) /\ res \in SUBSET Names /\ OneGateway(res)
  BY <1>2, Default, CompleteMeans DEF Whole
<1> HIDE DEF res
<1>4. disk' = [run |-> disk.run, res |-> res]
  BY <1>1, <1>2 DEF RunState
<1>5. running' \subseteq {disk.run} \X (res \cap Startable)
  BY <1>1
<1>6. TypeInv'
  <2>1. running' \subseteq objs' /\ running' \subseteq Runs \X Startable /\ objs' \subseteq Runs \X Names
    BY <1>1, <1>2, <1>3, <1>5 DEF Startable
  <2> QED
    BY <1>1, <1>2, <1>3, <1>4, <2>1 DEF IInv, TypeInv, TypeOK, RunState
<1>7. Held'[disk.run] = res /\ \A q \in Runs \ {disk.run} : Held'[q] = {}
  BY <1>1, <1>2, <1>3 DEF Held, Of
<1>8. disk'.run = disk.run /\ disk'.res = res
  BY <1>4
<1>9. PortInv'
  BY <1>2, <1>3, <1>7 DEF PortInv, OneGateway
<1>10. SteadyInv' /\ JournalInv' /\ MemoryInv'
  BY <1>1, <1>2, <1>3, <1>7, <1>8 DEF SteadyInv, JournalInv, MemoryInv, Only
<1>11. CandidateInv' /\ CompletionInv' /\ RollbackInv'
  BY <1>1 DEF CandidateInv, CompletionInv, RollbackInv, Staging, Creating, Cutting, Giving,
     Completing, Rolling, Reseeding, Halting
<1> QED
  BY <1>6, <1>9, <1>10, <1>11 DEF IInv

LEMMA StageStep ==
  ASSUME IInv, NEW c \in Runs, Stage(c)
  PROVE  IInv'
<1> DEFINE j == [phase |-> "staged", prev |-> disk.run, prevRes |-> disk.res,
                 cand |-> c, candRes |-> {}, roles |-> UpRoles(disk.run)]
<1>1. /\ pc = "idle" /\ jr = NoJournal /\ Of(c) = {} /\ Complete(disk.res)
      /\ objs = {disk.run} \X disk.res /\ jr' = j /\ mem' = j
      /\ pc' = "create" /\ cmd' = "update" /\ UNCHANGED <<dockerVars, disk, calm>>
  BY DEF Stage
<1>2. disk \in RunState /\ disk.run \in Runs /\ disk.res \in SUBSET Names /\ TypeInv
  BY DEF IInv, TypeInv, TypeOK, RunState
<1>3. Whole(disk.res) /\ Only(disk.run, disk.res) /\ Held[c] = {}
  BY <1>1, <1>2, CompleteMeans, OnlyMeans DEF Held
<1>4. c # disk.run
  BY <1>2, <1>3 DEF Whole, Only, Deployed
<1>5. UpRoles(disk.run) = Served[disk.run] /\ UpRoles(disk.run) \in SUBSET Roles
  BY <1>2, View DEF Served
<1>6. /\ j \in Journal /\ j.phase = "staged" /\ j.prev = disk.run /\ j.prevRes = disk.res
      /\ j.cand = c /\ j.candRes = {} /\ j.roles = Served[disk.run]
  BY <1>2, <1>5 DEF Journal
<1> HIDE DEF j
<1>7. Held' = Held /\ Served' = Served /\ objs' = objs /\ running' = running
  BY <1>1, Nothing DEF dockerVars
<1>8. j # NoJournal
  BY <1>6, ConstantsAssumption
<1>9. TypeInv'
  BY <1>1, <1>2, <1>4, <1>6, <1>7 DEF TypeInv, TypeOK, Labels, Creating
<1>10. PortInv'
  BY <1>7 DEF IInv, PortInv
<1>11. Held[disk.run] = disk.res /\ \A q \in Runs \ {disk.run} : Held[q] = {}
  BY <1>3 DEF Only
<1>12. JournalInv'
  BY <1>1, <1>3, <1>6, <1>7, <1>11 DEF JournalInv, Owned, Fixed, Whole
<1>13. MemoryInv' /\ SteadyInv'
  BY <1>1, <1>3, <1>6, <1>8 DEF MemoryInv, SteadyInv, Whole
<1>14. CandidateInv'
  BY <1>1, <1>3, <1>6, <1>7, <1>11
     DEF CandidateInv, CandidateHas, Prefixes, Staging, Creating, Cutting, Giving
<1>15. CompletionInv' /\ RollbackInv'
  BY <1>1 DEF CompletionInv, RollbackInv, Completing, Rolling, Reseeding, Halting
<1> QED
  BY <1>9, <1>10, <1>12, <1>13, <1>14, <1>15 DEF IInv

LEMMA RecoverStep ==
  ASSUME IInv, NEW c \in Recovery, NEW installed \in BOOLEAN, Recover(c, installed)
  PROVE  IInv'
<1>1. PICK p \in {"judge", "restore"} :
         /\ jr # NoJournal /\ cmd' = c /\ mem' = jr /\ pc' = p
         /\ p = "judge" => jr.phase = "ready"
         /\ UNCHANGED <<dockerVars, disk, jr, calm>>
  BY DEF Recover
<1>2. Held' = Held /\ Served' = Served /\ objs' = objs /\ running' = running
  BY <1>1, Nothing DEF dockerVars
<1>3. TypeInv' /\ PortInv' /\ JournalInv'
  BY <1>1, <1>2 DEF IInv, TypeInv, TypeOK, Labels, PortInv, JournalInv, Owned
<1>4. MemoryInv' /\ SteadyInv'
  BY <1>1 DEF IInv, JournalInv, MemoryInv, SteadyInv
<1>5. CandidateInv' /\ CompletionInv' /\ RollbackInv'
  BY <1>1 DEF CandidateInv, CompletionInv, RollbackInv, Staging, Creating, Cutting, Giving,
     Completing, Rolling, Reseeding, Halting, Cleaning
<1> QED
  BY <1>3, <1>4, <1>5 DEF IInv

LEMMA StutterStep ==
  ASSUME IInv, UNCHANGED vars
  PROVE  IInv'
<1>1. Held' = Held /\ Served' = Served
  BY Nothing DEF vars, dockerVars
<1> QED
  BY <1>1 DEF vars, IInv, TypeInv, TypeOK, PortInv, JournalInv, Owned, MemoryInv, SteadyInv,
     Only, CandidateInv, CompletionInv, RollbackInv

LEMMA ActivationStep ==
  ASSUME IInv, Activation
  PROVE  IInv'
<1>1. CASE CreateCandidate \/ StartCandidate \/ RemoveSeeder \/ OpenTemporary
  BY <1>1, StagingStep
<1>2. CASE CloseTemporary \/ OpenFinal \/ StartFinal \/ Verify \/ Settle
  BY <1>2, CuttingStep
<1>3. CASE CloseOld
  BY <1>3, CloseOldStep
<1>4. CASE Smoke \/ Ready
  BY <1>4, PhaseStep
<1>5. CASE Publish
  BY <1>5, PublishStep
<1>6. CASE Retire
  BY <1>6, RetireStep
<1>7. CASE Forget
  BY <1>7, ForgetStep
<1>8. CASE Abandon
  BY <1>8, AbandonStep
<1> QED
  BY <1>1, <1>2, <1>3, <1>4, <1>5, <1>6, <1>7, <1>8 DEF Activation

LEMMA RollbackStep ==
  ASSUME IInv, Rollback
  PROVE  IInv'
<1>1. CASE JudgeMatch \/ JudgeMismatch
  BY <1>1, JudgeStep
<1>2. CASE Restore
  BY <1>2, RestoreStep
<1>3. CASE DropSeeder
  BY <1>3, SeederStep
<1>4. CASE PreviousHolds
  BY <1>4, HoldsStep
<1>5. CASE Discard
  BY <1>5, DiscardStep
<1>6. CASE ReopenOld
  BY <1>6, ReopenStep
<1>7. CASE StopExtra \/ RolesRestored
  BY <1>7, RolesStep
<1>8. CASE Reseed \/ Unseed
  BY <1>8, ReseedStep
<1>9. CASE Restart \/ StartOld
  BY <1>9, StartStep
<1>10. CASE Halt
  BY <1>10, HaltStep
<1>11. CASE Restored
  BY <1>11, RestoredStep
<1>12. CASE Survive
  BY <1>12, SurviveStep
<1> QED
  BY <1>1, <1>2, <1>3, <1>4, <1>5, <1>6, <1>7, <1>8, <1>9, <1>10, <1>11, <1>12 DEF Rollback

LEMMA NextStep ==
  ASSUME IInv, Next
  PROVE  IInv'
<1>1. CASE Program
  BY <1>1, ActivationStep, RollbackStep, SaveStep, StoreStep, RaiseStep DEF Program
<1>2. CASE Environment
  <2>1. CASE Crash
    BY <2>1, Interrupted DEF Crash
  <2>2. CASE ContainerExits \/ CalmDown
    BY <2>2, ExitStep
  <2> QED
    BY <1>2, <2>1, <2>2 DEF Environment
<1>3. CASE OtherCommand
  BY <1>3, OtherStep
<1>4. CASE \E c \in Runs : Stage(c)
  BY <1>4, StageStep
<1>5. CASE \E c \in Recovery, installed \in BOOLEAN : Recover(c, installed)
  BY <1>5, RecoverStep
<1> QED
  BY <1>1, <1>2, <1>3, <1>4, <1>5 DEF Next

LEMMA Invariance == Spec => []IInv
<1>1. Init => IInv
  BY InitStep
<1>2. IInv /\ [Next]_vars => IInv'
  BY NextStep, StutterStep
<1> QED
  BY <1>1, <1>2, PTL DEF Spec

-----------------------------------------------------------------------------
(* Safety.                                                                 *)

\* Every state the update and its recoveries can reach is well-typed, and a
\* journal never names one run as both the previous and the next one
\* (models.py, UpdateJournal).
THEOREM TypeCorrect == Spec => []TypeOK
<1>1. IInv => TypeOK
  BY DEF IInv, TypeInv
<1> QED
  BY <1>1, Invariance, PTL

\* After any interruption every Docker object is recorded by the run in charge
\* or found by the adoption of the two journaled runs (_assert_no_orphans never
\* refuses what the update itself made).
THEOREM NothingOrphaned == Spec => []Accounted
<1>1. ASSUME IInv PROVE Accounted
  <2>1. CASE jr = NoJournal
    <3>1. Only(disk.run, disk.res) /\ disk.run \in Runs /\ disk.res \in SUBSET Names /\ TypeInv
      BY <1>1, <2>1 DEF IInv, SteadyInv, TypeInv, TypeOK, RunState
    <3> QED
      BY <2>1, <3>1, OnlyMeans DEF Accounted
  <2>2. CASE jr # NoJournal
    <3> DEFINE a == WithPrevious(WithCandidate(jr))
    <3>1. /\ TypeInv /\ PortInv /\ jr \in Journal /\ jr.prev # jr.cand
          /\ Owned(jr) /\ OneGateway(jr.prevRes)
      BY <1>1, <2>2 DEF IInv, TypeInv, TypeOK, JournalInv
    <3>2. /\ a \in Journal /\ a.prev = jr.prev /\ a.cand = jr.cand /\ a.candRes = Held[jr.cand]
          /\ Fixed(a) = Fixed(jr) /\ Held[jr.prev] \cap Replaceable \subseteq a.prevRes
      BY <3>1, Adoption
    <3> HIDE DEF a
    <3>3. Held[jr.prev] \subseteq a.prevRes
      BY <3>1, <3>2 DEF Owned, Fixed
    <3>4. Confined(a.prev, a.prevRes, a.cand, a.candRes)
      BY <3>1, <3>2, <3>3 DEF Confined, Owned
    <3>5. NoOrphans(a)
      BY <3>1, <3>2, <3>4, NoOrphansMeans
    <3> QED
      BY <2>2, <3>5 DEF Accounted, a
  <2> QED
    BY <2>1, <2>2
<1> QED
  BY <1>1, Invariance, PTL

\* The previous run's gateway goes before the candidate's comes, and the other
\* way round when the cutover is rolled back: the reviewed port is never
\* claimed twice, whatever was interrupted.
THEOREM PortClaimedOnce == Spec => []OnePortOwner
<1>1. ASSUME IInv PROVE OnePortOwner
  <2>1. ASSUME NEW a \in objs \cap (Runs \X Reviewed), NEW b \in objs \cap (Runs \X Reviewed)
        PROVE  a = b
    <3>1. PICK r \in Runs, g \in Reviewed : a = <<r, g>>
      BY <2>1
    <3>2. PICK q \in Runs, h \in Reviewed : b = <<q, h>>
      BY <2>1
    <3>3. g \in Names /\ h \in Names
      BY DEF Names, Gateways
    <3>4. g \in Held[r] /\ h \in Held[q]
      BY <1>1, <2>1, <3>1, <3>2, <3>3, Members DEF IInv
    <3>5. r = q /\ g = h
      BY <1>1, <3>4 DEF IInv, PortInv
    <3> QED
      BY <3>1, <3>2, <3>5
  <2> QED
    BY <2>1 DEF OnePortOwner
<1> QED
  BY <1>1, Invariance, PTL

\* Until the journal says "ready" all data and programs of the previous run
\* exist: activate_reviewed_update can always be rolled back.
THEOREM PreviousKept == Spec => []RollbackBase
<1>1. ASSUME IInv PROVE RollbackBase
  <2>1. ASSUME jr # NoJournal, jr.phase # "ready"
        PROVE  {jr.prev} \X (jr.prevRes \ (Reviewed \cup {"seeder"})) \subseteq objs
    <3>1. Fixed(jr) \subseteq Held[jr.prev] /\ jr.prev \in Runs /\ jr.prevRes \in SUBSET Names
      BY <1>1, <2>1 DEF IInv, JournalInv, TypeInv, TypeOK, Journal
    <3>2. \A n \in Fixed(jr) : <<jr.prev, n>> \in objs
      BY <1>1, <3>1, Members DEF IInv, Fixed
    <3> QED
      BY <3>2 DEF Fixed, Replaceable
  <2> QED
    BY <2>1 DEF RollbackBase
<1> QED
  BY <1>1, Invariance, PTL

\* Only delete_update, after everything else, removes a journal.
LEMMA Conclusion ==
  ASSUME IInv, [Next]_vars, Concluded
  PROVE  Forget
<1>1. jr # NoJournal /\ jr' = NoJournal
  BY DEF Concluded
<1>2. ASSUME SaveJournal PROVE FALSE
  BY <1>1, <1>2 DEF SaveJournal, AfterSave, IInv, MemoryInv
<1>3. ASSUME Smoke \/ Ready PROVE FALSE
  <2>1. PICK w \in {"cutover", "ready"} : jr' = [mem EXCEPT !.phase = w]
    BY <1>3 DEF Smoke, Ready
  <2>2. mem \in Journal
    BY <1>3, InCommand DEF Smoke, Ready
  <2>3. jr' \in Journal
    BY <2>1, <2>2 DEF Journal
  <2> QED
    BY <1>1, <2>3, ConstantsAssumption
<1>4. ASSUME Activation \/ Rollback PROVE Forget
  BY <1>1, <1>3, <1>4 DEF Activation, Rollback, CreateCandidate, StartCandidate, RemoveSeeder,
     OpenTemporary, CloseTemporary, CloseOld, OpenFinal, StartFinal, Verify, Settle, Publish,
     Retire, Abandon, JudgeMatch, JudgeMismatch, Restore, DropSeeder, PreviousHolds, Discard,
     ReopenOld, StopExtra, RolesRestored, Reseed, Restart, Unseed, Halt, StartOld, Restored,
     Survive
<1>5. ASSUME Environment \/ OtherCommand \/ Raise \/ SavePrevious \/ UNCHANGED vars PROVE FALSE
  BY <1>1, <1>5 DEF Environment, Crash, ContainerExits, CalmDown, OtherCommand, Raise,
     SavePrevious, vars
<1>6. ASSUME NEW c \in Runs, Stage(c) PROVE FALSE
  BY <1>1, <1>6 DEF Stage
<1>7. ASSUME NEW c \in Recovery, NEW installed \in BOOLEAN, Recover(c, installed) PROVE FALSE
  BY <1>1, <1>7 DEF Recover
<1> QED
  BY <1>2, <1>4, <1>5, <1>6, <1>7 DEF Next, Program

LEMMA Concluding ==
  ASSUME IInv, [Next]_vars, Concluded
  PROVE  /\ TypeInv /\ Only(disk.run, disk.res) /\ Served[disk.run] \subseteq jr.roles
         /\ disk.run \in Runs /\ disk.res \in SUBSET Names
         /\ cmd # "clean" => Complete(disk.res)
         /\ objs = {disk.run} \X disk.res
         /\ UNCHANGED <<objs, running>>
<1>1. pc = "forget" /\ UNCHANGED <<objs, running>>
  BY Conclusion DEF Forget, dockerVars
<1>2. TypeInv /\ disk.run \in Runs /\ disk.res \in SUBSET Names
  BY DEF IInv, TypeInv, TypeOK, RunState
<1> QED
  BY <1>1, <1>2, OnlyMeans, CompleteMeans DEF IInv, CompletionInv

\* Update, rollback and recovery never leave a container running whose role the
\* user had stopped before the update.
THEOREM RolesRespected == Spec => OnlyRolesRestarted
<1>1. ASSUME IInv, [Next]_vars, Concluded
      PROVE  {RoleOf(c[2]) : c \in running'} \subseteq jr.roles
  <2>1. ASSUME NEW c \in running PROVE RoleOf(c[2]) \in jr.roles
    <3>1. c \in {disk.run} \X disk.res /\ c \in running
      BY <1>1, Concluding DEF TypeInv, TypeOK
    <3>2. c = <<disk.run, c[2]>> /\ c[2] \in Names
      BY <1>1, <3>1, Concluding
    <3>3. RoleOf(c[2]) \in Served[disk.run]
      BY <1>1, <3>1, <3>2, Concluding, Members
    <3> QED
      BY <1>1, <3>3, Concluding
  <2> QED
    BY <1>1, <2>1, Concluding
<1> QED
  BY <1>1, Invariance, PTL DEF Spec, OnlyRolesRestarted

\* An update or a recovery that may start containers forgets the journal only
\* when exactly one run exists, complete and as recorded.
THEOREM CompleteAtTheEnd == Spec => EndsComplete
<1>1. ASSUME IInv, [Next]_vars, Concluded, cmd # "clean"
      PROVE  Complete(disk.res) /\ objs = {disk.run} \X disk.res
  BY <1>1, Concluding
<1> QED
  BY <1>1, Invariance, PTL DEF Spec, EndsComplete

\* The recovery that stop, remove and purge perform (_recover_update_for_cleanup)
\* creates no object and starts no container, at any step.
THEOREM CleanupOnlyRemoves == Spec => CleanupStartsNothing
<1>1. ASSUME IInv, [Next]_vars, cmd = "clean", pc # "idle"
      PROVE  objs' \subseteq objs /\ running' \subseteq running
  <2>1. pc \in Cleaning
    BY <1>1 DEF IInv, RollbackInv
  <2>2. CASE Program
    <3>1. ASSUME Activation PROVE objs' \subseteq objs /\ running' \subseteq running
      <4>1. CASE Publish \/ Forget
        BY <4>1 DEF Publish, Forget, dockerVars
      <4>2. CASE Retire
        BY <4>2 DEF Retire, Remove, dockerVars
      <4>3. CASE ~(Publish \/ Forget \/ Retire)
        BY <2>1, <3>1, <4>3 DEF Cleaning, Activation, CreateCandidate, StartCandidate,
           RemoveSeeder, OpenTemporary, Smoke, CloseTemporary, CloseOld, OpenFinal, StartFinal,
           Verify, Settle, Ready, Abandon
      <4> QED
        BY <4>1, <4>2, <4>3
    <3>2. ASSUME Rollback PROVE objs' \subseteq objs /\ running' \subseteq running
      <4>1. CASE JudgeMatch \/ JudgeMismatch \/ Restore \/ PreviousHolds \/ Survive
        BY <4>1 DEF JudgeMatch, JudgeMismatch, Restore, PreviousHolds, Survive, dockerVars
      <4>2. CASE DropSeeder \/ Discard
        BY <4>2 DEF DropSeeder, Discard, Stop, Remove, dockerVars
      <4>3. CASE ReopenOld \/ StopExtra \/ RolesRestored \/ Reseed \/ Restart \/ Unseed
                 \/ Halt \/ StartOld \/ Restored
        BY <2>1, <4>3 DEF Cleaning, ReopenOld, StopExtra, RolesRestored, Reseed, Restart,
           Unseed, Halt, StartOld, Restored
      <4> QED
        BY <3>2, <4>1, <4>2, <4>3 DEF Rollback
    <3>3. ASSUME SaveJournal \/ SavePrevious \/ Raise
          PROVE  objs' \subseteq objs /\ running' \subseteq running
      BY <3>3 DEF SaveJournal, SavePrevious, Raise, dockerVars
    <3> QED
      BY <2>2, <3>1, <3>2, <3>3 DEF Program
  <2>3. CASE Environment \/ UNCHANGED vars
    BY <2>3 DEF Environment, Crash, ContainerExits, CalmDown, vars, dockerVars
  <2>4. ~OtherCommand /\ (\A c \in Runs : ~Stage(c))
        /\ \A c \in Recovery, installed \in BOOLEAN : ~Recover(c, installed)
    BY <1>1 DEF OtherCommand, Stage, Recover
  <2> QED
    BY <1>1, <2>2, <2>3, <2>4 DEF Next
<1> QED
  BY <1>1, Invariance, PTL DEF Spec, CleanupStartsNothing

-----------------------------------------------------------------------------
(* The abstract replacement.                                               *)

Current   == IF jr = NoJournal THEN disk.run ELSE jr.prev
Candidate == IF jr = NoJournal THEN {} ELSE {jr.cand}
Verified  == jr # NoJournal /\ jr.phase = "ready"
Intact    == {r \in Runs : {r} \X Deployed \subseteq objs}

LEMMA IntactMeans ==
  /\ Intact = {r \in Runs : Deployed \subseteq Held[r]}
  /\ Intact' = {r \in Runs : Deployed \subseteq Held'[r]}
<1>1. Deployed \subseteq Names
  BY DEF Deployed, Names
<1>2. \A r \in Runs : {r} \X Deployed \subseteq objs <=> Deployed \subseteq Held[r]
  BY <1>1 DEF Held, Of
<1>3. \A r \in Runs : {r} \X Deployed \subseteq objs' <=> Deployed \subseteq Held'[r]
  BY <1>1 DEF Held, Of
<1> QED
  BY <1>2, <1>3 DEF Intact

\* Steps that the replacement does not see.
Unseen == UNCHANGED <<Current, Candidate, Verified, Intact>>

LEMMA Aside ==
  ASSUME \A r \in Runs, n \in Deployed : <<r, n>> \in objs' <=> <<r, n>> \in objs
  PROVE  Intact' = Intact
BY DEF Intact

LEMMA UnseenSame ==
  ASSUME UNCHANGED jr, jr # NoJournal \/ UNCHANGED disk,
         \A r \in Runs, n \in Deployed : <<r, n>> \in objs' <=> <<r, n>> \in objs
  PROVE  Unseen
BY Aside DEF Unseen, Current, Candidate, Verified

\* Nothing of a program or of its data is created or removed here.
LEMMA Quiet ==
  ASSUME IInv,
         \/ StartCandidate \/ RemoveSeeder \/ OpenTemporary \/ CloseTemporary \/ CloseOld
         \/ OpenFinal \/ StartFinal \/ Verify \/ Settle \/ Publish \/ Abandon \/ JudgeMatch
         \/ JudgeMismatch \/ Restore \/ DropSeeder \/ PreviousHolds \/ ReopenOld \/ StopExtra
         \/ RolesRestored \/ Reseed \/ Restart \/ Unseed \/ Halt \/ StartOld \/ Restored
         \/ Survive \/ SavePrevious \/ Raise
  PROVE  Unseen
<1>1. pc # "idle" /\ UNCHANGED jr
  BY DEF StartCandidate, RemoveSeeder, OpenTemporary, CloseTemporary, CloseOld, OpenFinal,
     StartFinal, Verify, Settle, Publish, Abandon, JudgeMatch, JudgeMismatch, Restore,
     DropSeeder, PreviousHolds, ReopenOld, StopExtra, RolesRestored, Reseed, Restart, Unseed,
     Halt, StartOld, Restored, Survive, SavePrevious, Raise, AfterStore
<1>2. jr # NoJournal
  BY <1>1 DEF IInv, MemoryInv
<1>3. Deployed \cap (Gateways \cup {"seeder"}) = {} /\ Reviewed \subseteq Gateways
  BY DEF Deployed, Gateways, Reviewed
<1>4. \A r \in Runs, n \in Deployed : <<r, n>> \in objs' <=> <<r, n>> \in objs
  <2>1. CASE UNCHANGED objs
    BY <2>1
  <2>2. ASSUME NEW q, NEW g \in Gateways \cup {"seeder"},
               objs' = objs \cup {<<q, g>>} \/ objs' = objs \ {<<q, g>>}
        PROVE  \A r \in Runs, n \in Deployed : <<r, n>> \in objs' <=> <<r, n>> \in objs
    BY <1>3, <2>2
  <2>3. CASE \/ StartCandidate \/ OpenTemporary \/ StartFinal \/ Verify \/ Settle \/ Publish
             \/ Abandon \/ JudgeMatch \/ JudgeMismatch \/ Restore \/ PreviousHolds \/ StopExtra
             \/ RolesRestored \/ Restart \/ StartOld \/ Restored \/ Survive \/ SavePrevious
             \/ Raise
    <3>1. UNCHANGED objs
      BY <2>3 DEF StartCandidate, OpenTemporary, StartFinal, Verify, Settle, Publish,
         Abandon, JudgeMatch, JudgeMismatch, Restore, PreviousHolds, StopExtra, RolesRestored,
         Restart, StartOld, Restored, Survive, SavePrevious, Raise, dockerVars, Start, Stop
    <3> QED
      BY <2>1, <3>1
  <2>4. CASE RemoveSeeder \/ DropSeeder \/ Reseed \/ Unseed \/ Halt
    <3>1. \/ UNCHANGED objs
          \/ \E q \in {mem.prev, mem.cand} : \/ objs' = objs \cup {<<q, "seeder">>}
                                             \/ objs' = objs \ {<<q, "seeder">>}
      BY <2>4 DEF RemoveSeeder, DropSeeder, Reseed, Unseed, Halt, Create, Remove, Stop
    <3> QED
      BY <2>1, <2>2, <3>1
  <2>5. CASE CloseTemporary \/ CloseOld \/ OpenFinal \/ ReopenOld
    <3>1. "gateway" \in Gateways /\ "temporary" \in Gateways
      BY DEF Gateways, Reviewed
    <3>2. \/ UNCHANGED objs
          \/ \E q \in {mem.prev, mem.cand}, g \in Gateways :
                objs' = objs \cup {<<q, g>>} \/ objs' = objs \ {<<q, g>>}
      BY <1>3, <2>5, <3>1
         DEF CloseTemporary, CloseOld, OpenFinal, ReopenOld, Create, Remove, dockerVars
    <3> QED
      BY <2>1, <2>2, <3>2
  <2> QED
    BY <2>3, <2>4, <2>5
<1> QED
  BY <1>1, <1>2, <1>4, UnseenSame

LEMMA QuietSaves ==
  ASSUME IInv, SaveJournal \/ Smoke
  PROVE  Unseen
<1>1. /\ pc # "idle" /\ UNCHANGED dockerVars
      /\ jr' = mem \/ (jr' = [mem EXCEPT !.phase = "cutover"] /\ jr.phase # "ready")
  BY DEF SaveJournal, Smoke, AfterSave, IInv, CandidateInv, Staging, Creating
<1>2. /\ jr \in Journal /\ mem \in Journal /\ mem.prev = jr.prev /\ mem.cand = jr.cand
      /\ mem.phase = jr.phase
  BY <1>1, InCommand
<1>3. /\ jr' \in Journal /\ jr'.prev = jr.prev /\ jr'.cand = jr.cand
      /\ jr'.phase = "ready" <=> jr.phase = "ready"
  BY <1>1, <1>2 DEF Journal
<1>4. Intact' = Intact
  BY <1>1 DEF dockerVars, Intact
<1> QED
  BY <1>2, <1>3, <1>4, ConstantsAssumption DEF Unseen, Current, Candidate, Verified

LEMMA QuietWorld ==
  ASSUME IInv, Environment \/ UNCHANGED vars
               \/ \E c \in Recovery, installed \in BOOLEAN : Recover(c, installed)
  PROVE  Unseen
<1>1. UNCHANGED <<objs, disk, jr>>
  BY DEF Environment, Crash, ContainerExits, CalmDown, Recover, vars, dockerVars
<1> QED
  BY <1>1, UnseenSame

\* The run in charge before and after another command is the same one.
LEMMA QuietOther ==
  ASSUME IInv, OtherCommand, cmd' # "clean"
  PROVE  Unseen
<1>1. IInv' /\ jr = NoJournal /\ jr' = NoJournal /\ cmd' = cmd /\ disk.run \in Runs
  BY OtherStep DEF OtherCommand, IInv, TypeInv, TypeOK, RunState
<1>2. disk'.run = disk.run
  BY DEF OtherCommand, IInv, TypeInv, TypeOK, RunState
<1>3. /\ Only(disk.run, disk.res) /\ Whole(disk.res)
      /\ Held'[disk.run] = disk'.res /\ (\A q \in Runs \ {disk.run} : Held'[q] = {})
      /\ Whole(disk'.res)
  BY <1>1, <1>2 DEF IInv, SteadyInv, Only
<1>4. Intact = {disk.run} /\ Intact' = {disk.run}
  BY <1>1, <1>3, IntactMeans DEF Only, Whole, Deployed
<1> QED
  BY <1>1, <1>2, <1>4 DEF Unseen, Current, Candidate, Verified

\* The steps that the replacement does see.
LEMMA PrepareSeen ==
  ASSUME IInv, CreateCandidate
  PROVE  UNCHANGED <<Current, Candidate, Verified>> /\ Intact' \in {Intact, Intact \cup Candidate}
<1>1. /\ pc # "idle" /\ UNCHANGED <<disk, jr>> /\ jr # NoJournal /\ mem.cand = jr.cand
      /\ jr.cand \in Runs
  BY InCommand DEF CreateCandidate, IInv, MemoryInv
<1>2. PICK n : objs' = objs \cup {<<jr.cand, n>>}
  BY <1>1 DEF CreateCandidate, Create
<1>3. Intact \subseteq Intact' /\ Intact' \subseteq Intact \cup {jr.cand}
  BY <1>1, <1>2 DEF Intact
<1> QED
  BY <1>1, <1>3 DEF Current, Candidate, Verified

LEMMA VerifySeen ==
  ASSUME IInv, Ready
  PROVE  /\ UNCHANGED <<Current, Candidate, Intact>> /\ Verified'
         /\ Candidate # {} /\ Candidate \subseteq Intact
<1>1. /\ pc = "settle" /\ pc # "idle" /\ pc \in Staging \cup Cutting /\ UNCHANGED <<disk, objs>>
      /\ jr' = [mem EXCEPT !.phase = "ready"] /\ jr # NoJournal
  BY DEF Ready, Cutting, dockerVars, IInv, MemoryInv
<1>2. mem \in Journal /\ mem.prev = jr.prev /\ mem.cand = jr.cand /\ jr.cand \in Runs
  BY <1>1, InCommand
<1>3. jr' \in Journal /\ jr'.prev = jr.prev /\ jr'.cand = jr.cand /\ jr'.phase = "ready"
  BY <1>1, <1>2 DEF Journal
<1>4. Deployed \subseteq Held[mem.cand]
  BY <1>1, InAdvance DEF CandidateHas, Deployed
<1>5. jr.cand \in Intact
  BY <1>2, <1>4, IntactMeans
<1>6. Intact' = Intact
  BY <1>1 DEF Intact
<1> QED
  BY <1>1, <1>3, <1>5, <1>6, ConstantsAssumption DEF Current, Candidate, Verified

LEMMA RetireSeen ==
  ASSUME IInv, Retire
  PROVE  /\ UNCHANGED <<Current, Candidate, Verified>> /\ Verified
         /\ Candidate # {} /\ Candidate \subseteq Intact
         /\ Intact' \in {Intact, Intact \ {Current}}
<1>1. /\ pc = "retire" /\ pc # "idle" /\ UNCHANGED <<disk, jr>> /\ jr # NoJournal
      /\ mem.prev = jr.prev /\ mem.cand = jr.cand /\ jr.prev \in Runs /\ jr.cand \in Runs
      /\ jr.phase = "ready" /\ Held[jr.cand] = mem.candRes /\ Whole(mem.candRes)
  BY InCommand DEF Retire, IInv, MemoryInv, CompletionInv, Completing
<1>2. jr.cand \in Intact
  BY <1>1, IntactMeans DEF Whole
<1>3. UNCHANGED objs \/ \E n : objs' = objs \ {<<jr.prev, n>>}
  BY <1>1 DEF Retire, Remove, dockerVars
<1>4. Intact' \in {Intact, Intact \ {jr.prev}}
  BY <1>1, <1>3 DEF Intact
<1> QED
  BY <1>1, <1>2, <1>4 DEF Current, Candidate, Verified

LEMMA DiscardSeen ==
  ASSUME IInv, Discard, cmd' # "clean"
  PROVE  /\ UNCHANGED <<Current, Candidate, Verified>> /\ Current \in Intact
         /\ Intact' \in {Intact, Intact \ Candidate}
<1>1. /\ pc \in {"discard", "abandoning"} /\ pc # "idle" /\ UNCHANGED <<disk, jr>>
      /\ jr # NoJournal /\ mem.cand = jr.cand /\ jr.prev \in Runs /\ jr.cand \in Runs
      /\ cmd # "clean"
  BY InCommand DEF Discard, Step, IInv, MemoryInv
<1>2. Deployed \subseteq Held[jr.prev]
  <2>1. CASE pc = "discard"
    BY <1>1, <2>1 DEF IInv, RollbackInv
  <2>2. CASE pc = "abandoning"
    <3>1. jr.phase # "ready"
      BY <2>2 DEF IInv, CandidateInv, Giving
    <3>2. Deployed \subseteq jr.prevRes /\ Fixed(jr) \subseteq Held[jr.prev]
      BY <1>1, <3>1 DEF IInv, JournalInv
    <3> QED
      BY <3>2 DEF Fixed, Deployed, Replaceable, Reviewed
  <2> QED
    BY <1>1, <2>1, <2>2
<1>3. jr.prev \in Intact
  BY <1>1, <1>2, IntactMeans
<1>4. UNCHANGED objs \/ \E n : objs' = objs \ {<<jr.cand, n>>}
  BY <1>1 DEF Discard, Remove, dockerVars
<1>5. Intact' \in {Intact, Intact \ {jr.cand}}
  BY <1>1, <1>4 DEF Intact
<1> QED
  BY <1>1, <1>3, <1>5 DEF Current, Candidate, Verified

LEMMA ForgetSeen ==
  ASSUME IInv, Forget, cmd' # "clean"
  PROVE  /\ Candidate' = {} /\ Verified' = FALSE /\ Intact' = Intact
         /\ \/ Current' = Current /\ Current \in Intact /\ Candidate \cap Intact = {}
            \/ /\ Verified /\ Candidate # {} /\ Candidate \subseteq Intact
               /\ Current \notin Intact /\ Current' \in Candidate
<1>1. /\ pc = "forget" /\ pc # "idle" /\ UNCHANGED <<disk, objs>> /\ jr' = NoJournal
      /\ jr # NoJournal /\ jr.prev \in Runs /\ jr.cand \in Runs /\ jr.prev # jr.cand
      /\ disk.run \in {jr.prev, jr.cand} /\ cmd # "clean"
  BY InCommand DEF Forget, Step, dockerVars, IInv, MemoryInv, TypeInv, TypeOK
<1>2. /\ Only(disk.run, disk.res) /\ Whole(disk.res)
      /\ disk.run = jr.cand => jr.phase = "ready"
  BY <1>1 DEF IInv, CompletionInv
<1>3. Intact = {disk.run}
  BY <1>1, <1>2, IntactMeans DEF Only, Whole, Deployed
<1>4. Intact' = Intact
  BY <1>1 DEF Intact
<1> QED
  BY <1>1, <1>2, <1>3, <1>4 DEF Current, Candidate, Verified

LEMMA StageSeen ==
  ASSUME IInv, NEW c \in Runs, Stage(c)
  PROVE  /\ Candidate = {} /\ c \notin Intact /\ Candidate' = {c}
         /\ UNCHANGED <<Current, Verified, Intact>>
<1> DEFINE j == [phase |-> "staged", prev |-> disk.run, prevRes |-> disk.res,
                 cand |-> c, candRes |-> {}, roles |-> UpRoles(disk.run)]
<1>1. /\ jr = NoJournal /\ jr' = j /\ UNCHANGED <<disk, objs>> /\ Held[c] = {}
  BY DEF Stage, dockerVars, Held
<1>2. j.phase = "staged" /\ j.prev = disk.run /\ j.cand = c
  OBVIOUS
<1> HIDE DEF j
<1>3. jr' # NoJournal
  BY StageStep, <1>1 DEF Stage, IInv, MemoryInv
<1>4. c \notin Intact /\ Intact' = Intact
  <2>1. c \notin Intact
    BY <1>1, IntactMeans DEF Deployed
  <2> QED
    BY <1>1, <2>1 DEF Intact
<1> QED
  BY <1>1, <1>2, <1>3, <1>4 DEF Current, Candidate, Verified

LEMMA InitSeen ==
  ASSUME Init
  PROVE  /\ Current \in Runs /\ Candidate = {} /\ Verified = FALSE /\ Intact = {Current}
<1>1. IInv /\ jr = NoJournal /\ cmd = "none"
  BY InitStep DEF Init
<1>2. /\ disk.run \in Runs /\ Only(disk.run, disk.res) /\ Deployed \subseteq disk.res
  BY <1>1, Default DEF IInv, SteadyInv, TypeInv, TypeOK, RunState, Init
<1>3. Intact = {disk.run}
  BY <1>2, IntactMeans DEF Only, Deployed
<1> QED
  BY <1>1, <1>2, <1>3 DEF Current, Candidate, Verified

\* The executing commands keep what a transactional replacement promises
\* (updates.py): a candidate is given up only beside an intact previous run, the
\* previous run only for a verified and intact candidate.
THEOREM UpdateReplaces == Spec => ImplementsReplacement
<1> USE DEF Current, Candidate, Verified, Intact
<1>1. Init => Contract!Init
  BY InitSeen DEF Contract!Init
<1>2. ASSUME IInv, [Next]_vars, cmd' # "clean"
      PROVE  Contract!Next \/ UNCHANGED Contract!vars
  <2>1. ASSUME Unseen PROVE UNCHANGED Contract!vars
    BY <2>1 DEF Unseen, Contract!vars
  <2>2. ASSUME CreateCandidate PROVE Contract!Prepare \/ UNCHANGED Contract!vars
    BY <1>2, <2>2, PrepareSeen DEF Contract!Prepare, Contract!vars
  <2>3. ASSUME Ready PROVE Contract!Verify
    BY <1>2, <2>3, VerifySeen DEF Contract!Verify, Contract!Prepared
  <2>4. ASSUME Retire PROVE Contract!Retire \/ UNCHANGED Contract!vars
    BY <1>2, <2>4, RetireSeen DEF Contract!Retire, Contract!Prepared, Contract!vars
  <2>5. ASSUME Discard PROVE Contract!DiscardCandidate \/ UNCHANGED Contract!vars
    BY <1>2, <2>5, DiscardSeen DEF Contract!DiscardCandidate, Contract!vars
  <2>6. ASSUME Forget PROVE Contract!Rollback \/ Contract!Activate
    BY <1>2, <2>6, ForgetSeen DEF Contract!Rollback, Contract!Activate, Contract!Prepared
  <2>7. ASSUME NEW c \in Runs, Stage(c) PROVE Contract!Stage(c)
    BY <1>2, <2>7, StageSeen DEF Contract!Stage
  <2>8. \/ Unseen \/ CreateCandidate \/ Ready \/ Retire \/ Discard \/ Forget
        \/ \E c \in Runs : Stage(c)
    <3>1. CASE Program
      BY <1>2, <3>1, Quiet, QuietSaves DEF Program, Activation, Rollback
    <3>2. CASE ~Program
      BY <1>2, <3>2, QuietWorld, QuietOther DEF Next
    <3> QED
      BY <3>1, <3>2
  <2> QED
    BY <2>1, <2>2, <2>3, <2>4, <2>5, <2>6, <2>7, <2>8 DEF Contract!Next
<1>3. IInv /\ [Next]_vars => [cmd' = "clean" \/ Contract!Next]_(Contract!vars)
  BY <1>2
<1> QED
  BY <1>1, <1>3, Invariance, PTL DEF Spec, ImplementsReplacement

\* The theorem about Replacement, for the replacement that an update is.
ContractTheorems == INSTANCE Replacement_proofs WITH
    current <- Current, candidate <- Candidate, verified <- Verified, intact <- Intact

\* The commands that update or execute an update again; cleanup does neither.
Executing == cmd # "clean"

\* As long as recovery executes, and is not cleanup, there is at every step of
\* every update, and wherever one is cut off, a run with all of its data and
\* program: the previous one, or the candidate once it is ready.
THEOREM AlwaysADeployment == Spec /\ []Executing => []Contract!Recoverable
<1>1. Contract!Init => ContractTheorems!Init
  BY DEF Contract!Init, ContractTheorems!Init, Current, Candidate, Verified, Intact
<1>2. [Contract!Next]_(Contract!vars) => [ContractTheorems!Next]_(ContractTheorems!vars)
  BY DEF Contract!Next, Contract!vars, ContractTheorems!Next, ContractTheorems!vars,
         Contract!Stage, Contract!Prepare, Contract!Prepared, Contract!Verify,
         Contract!DiscardCandidate, Contract!Rollback, Contract!Retire, Contract!Activate,
         ContractTheorems!Stage, ContractTheorems!Prepare, ContractTheorems!Prepared,
         ContractTheorems!Verify, ContractTheorems!DiscardCandidate,
         ContractTheorems!Rollback, ContractTheorems!Retire, ContractTheorems!Activate,
         Current, Candidate, Verified, Intact
<1>3. ContractTheorems!Recoverable => Contract!Recoverable
  BY DEF Contract!Recoverable, ContractTheorems!Recoverable,
         Contract!Prepared, ContractTheorems!Prepared,
         Current, Candidate, Verified, Intact
<1>4. Executing' /\ [cmd' = "clean" \/ Contract!Next]_(Contract!vars)
         => [Contract!Next]_(Contract!vars)
  BY DEF Executing
<1>5. []Executing /\ ImplementsReplacement => [][Contract!Next]_(Contract!vars)
  BY <1>4, PTL DEF ImplementsReplacement
<1> QED
  BY <1>1, <1>2, <1>3, <1>5, UpdateReplaces, ContractTheorems!AlwaysRecoverable, PTL
     DEF ImplementsReplacement, ContractTheorems!Spec
================================================================================
