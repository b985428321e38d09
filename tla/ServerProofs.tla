---------------------------- MODULE ServerProofs -----------------------------
(***************************************************************************)
(* The server, in two parts that share nothing but the module.             *)
(*                                                                         *)
(* Server: what requests share stays shared, for any number of requests,   *)
(* threads and settings.  ServerInv is the inductive invariant: beside the *)
(* lock discipline it says what a request may rely on at each step of the  *)
(* double-checked locking.                                                 *)
(*                                                                         *)
(* Streaming: what one streaming request is sent, for any tool calls and   *)
(* any events of a model API.  StreamInv is the inductive invariant: it    *)
(* looks at what was sent together with what is yet to be sent, and at     *)
(* what the generator remembers of the calls.                              *)
(***************************************************************************)
EXTENDS Server, Streaming, FiniteSetTheorems, WellFoundedInduction, TLAPS

Places == Singletons \cup {"preamble", "endpoint"}
Standing == [in : Places, step : Steps]
Owners == Requests \cup {Nobody}
Critical == {"again", "make", "keep"}

Types ==
  /\ setting \in Settings
  /\ at \in [Requests -> Standing]
  /\ holder \in [Singletons -> Owners]
  /\ single \in [Singletons -> Owners]
  /\ made \in [Singletons -> Nat]
  /\ tools \subseteq Tools
  /\ got \in [Requests -> [Singletons -> Owners]]
  /\ saw \in [Requests -> SUBSET (SUBSET Tools)]
  /\ source \in Int /\ cached \in Int
  /\ preamble \in [Requests -> Int] /\ behind \subseteq Requests
  /\ loop \in Owners

Locked ==
  \A s \in Singletons, r \in Requests :
    /\ at[r].in = s /\ at[r].step \in Critical => holder[s] = r
    /\ holder[s] = r => at[r].in = s /\ at[r].step \in Critical \cup {"return"}

OnLoop == \A r \in Requests : loop = r <=> at[r].step = "onloop"

Bounded == Cardinality(OnThread) <= Threads

Keeping(r, s) == at[r].in = s /\ at[r].step = "keep"

\* A request that makes a singleton makes the first, one that returns it finds it.
MadeOnce ==
  \A s \in Singletons :
    /\ made[s] \in {0, 1}
    /\ single[s] = Nobody /\ made[s] = 1 => \E r \in Requests : Keeping(r, s)
    /\ \A r \in Requests : at[r].in = s =>
         /\ at[r].step \in {"make", "keep"} => single[s] = Nobody
         /\ at[r].step = "make" => made[s] = 0
         /\ at[r].step = "return" => single[s] # Nobody

Handed ==
  /\ \A s \in Singletons, r \in Requests : got[r][s] # Nobody => got[r][s] = single[s]
  /\ \A r \in Requests : at[r].in \in {"preamble", "endpoint"} => got[r]["registry"] # Nobody

Filled ==
  /\ tools \subseteq setting.builtin
  /\ single["registry"] # Nobody => tools = setting.builtin
  /\ \A r \in Requests : Keeping(r, "registry") => tools = setting.builtin
  /\ \A r \in Requests : saw[r] \subseteq {setting.builtin}

Settled ==
  \A r \in behind : at[r].in = "endpoint" /\ preamble[r] = cached /\ cached # -1

ServerInv ==
  Types /\ Locked /\ OnLoop /\ Bounded /\ MadeOnce /\ Handed /\ Filled /\ Settled
-----------------------------------------------------------------------------
\* Where one request goes, the others stay.
LEMMA StepFacts ==
  ASSUME Types, NEW r \in Requests, NEW st \in Steps, Step(r, st)
  PROVE  /\ at' \in [Requests -> Standing]
         /\ at'[r].in = at[r].in /\ at'[r].step = st
         /\ \A q \in Requests \ {r} : at'[q] = at[q]
BY DEF Types, Step, Standing

LEMMA MoveFacts ==
  ASSUME Types, NEW r \in Requests, NEW where \in Places, NEW st \in Steps, Move(r, where, st)
  PROVE  /\ at' \in [Requests -> Standing]
         /\ at'[r].in = where /\ at'[r].step = st
         /\ \A q \in Requests \ {r} : at'[q] = at[q]
BY DEF Types, Move, Standing

\* The pool is not exceeded by a request that had a thread, has none now, or found one free.
LEMMA ThreadFacts ==
  ASSUME Bounded, NEW r \in Requests, \A q \in Requests \ {r} : at'[q] = at[q],
         r \in OnThread' => r \in OnThread \/ Cardinality(OnThread) < Threads
  PROVE  Bounded'
<1>1. IsFiniteSet(OnThread) /\ Cardinality(OnThread) \in Nat /\ Threads \in Nat
  BY ServerAssumption, FS_Subset, FS_CardinalityType DEF OnThread
<1>2. OnThread' \subseteq OnThread \cup {r}
  BY DEF OnThread
<1>3. IsFiniteSet(OnThread \cup {r})
  BY <1>1, FS_AddElement
<1>4. CASE r \in OnThread'
  <2>1. r \in OnThread \/ Cardinality(OnThread) < Threads
    BY <1>4
  <2>2. Cardinality(OnThread \cup {r}) <= Threads
    BY <1>1, <2>1, FS_AddElement DEF Bounded
  <2>3. Cardinality(OnThread') <= Cardinality(OnThread \cup {r}) /\ Cardinality(OnThread') \in Nat
    BY <1>2, <1>3, FS_Subset, FS_CardinalityType
  <2>4. Cardinality(OnThread \cup {r}) \in Nat
    BY <1>3, FS_CardinalityType
  <2> QED
    BY <1>1, <2>2, <2>3, <2>4 DEF Bounded
<1>5. CASE r \notin OnThread'
  <2>1. OnThread' \subseteq OnThread
    BY <1>2, <1>5
  <2>2. Cardinality(OnThread') <= Cardinality(OnThread) /\ Cardinality(OnThread') \in Nat
    BY <1>1, <2>1, FS_Subset, FS_CardinalityType
  <2> QED
    BY <1>1, <2>2 DEF Bounded
<1> QED
  BY <1>4, <1>5

\* Outside of get_engine and get_registry nothing of the singletons changes.
LEMMA ElsewhereFacts ==
  ASSUME ServerInv, at' \in [Requests -> Standing], NEW r \in Requests,
         \A q \in Requests \ {r} : at'[q] = at[q],
         at[r].step \notin Critical \cup {"return"},
         at'[r].step \notin Critical \cup {"return"},
         at'[r].in = at[r].in \/ (at[r].in = "preamble" /\ at'[r].in = "endpoint"),
         UNCHANGED << setting, sharedVars, got >>,
         saw' = saw \/ (at[r].in = "endpoint" /\ saw' = [saw EXCEPT ![r] = {tools}])
  PROVE  Locked' /\ MadeOnce' /\ Handed' /\ Filled' /\ saw' \in [Requests -> SUBSET (SUBSET Tools)]
<1> USE DEF sharedVars
<1>1. Locked'
  BY DEF ServerInv, Types, Locked, Critical, Standing
<1>2. MadeOnce'
  <2>1. \A q \in Requests : at'[q].step \in Critical \cup {"return"} => at'[q] = at[q]
    OBVIOUS
  <2>2. \A s \in Singletons, q \in Requests : Keeping(q, s) => Keeping(q, s)'
    BY DEF Keeping, Critical
  <2> QED
    BY <2>1, <2>2 DEF ServerInv, MadeOnce, Critical
<1>3. Handed'
  BY DEF ServerInv, Types, Handed
<1>4. got[r]["registry"] # Nobody /\ at[r].in = "endpoint" => tools = setting.builtin
  BY DEF ServerInv, Handed, Filled, Keeping, Singletons
<1>5. at[r].in = "endpoint" => tools = setting.builtin
  BY <1>4 DEF ServerInv, Handed
<1>6. Filled'
  BY <1>5, ZenonT(60) DEF ServerInv, Types, Filled, Keeping, Critical, Standing
<1>7. saw' \in [Requests -> SUBSET (SUBSET Tools)]
  BY DEF ServerInv, Types
<1> QED
  BY <1>1, <1>2, <1>3, <1>6, <1>7
-----------------------------------------------------------------------------
(* One lemma per step of get_engine and get_registry. *)

\* A request in there keeps neither the loop nor a preamble.
LEMMA InsideFacts ==
  ASSUME ServerInv, NEW r \in Requests, at[r].in \in Singletons,
         \A q \in Requests \ {r} : at'[q] = at[q],
         at[r].step # "onloop", at'[r].step # "onloop",
         at[r].step = "queued" /\ at'[r].step # "queued" => Cardinality(OnThread) < Threads,
         at[r].step \notin {"between", "answered"},
         UNCHANGED << preambleVars, transportVars >>
  PROVE  OnLoop' /\ Bounded' /\ Settled'
<1>1. OnLoop'
  BY DEF ServerInv, OnLoop, transportVars
<1>2. r \in OnThread' => r \in OnThread \/ Cardinality(OnThread) < Threads
  BY DEF OnThread
<1>3. Bounded'
  BY <1>2, ThreadFacts DEF ServerInv
<1>4. Settled'
  BY DEF ServerInv, Settled, preambleVars, Singletons, Types
<1> QED
  BY <1>1, <1>3, <1>4

LEMMA LookKeeps ==
  ASSUME ServerInv, NEW r \in Requests, NEW s \in Singletons, Look(r, s)
  PROVE  ServerInv'
<1> USE DEF Look
<1> DEFINE st == IF single[s] = Nobody THEN "acquire" ELSE "return"
<1>1. st \in Steps
  BY DEF Steps
<1>2. /\ at' \in [Requests -> Standing] /\ at'[r].in = s /\ at'[r].step = st
      /\ \A q \in Requests \ {r} : at'[q] = at[q]
  BY <1>1, StepFacts DEF ServerInv
<1>3. at[r].in = s /\ at[r].step = "queued" /\ Cardinality(OnThread) < Threads
  BY DEF Dispatched
<1>4. OnLoop' /\ Bounded' /\ Settled'
  BY <1>2, <1>3, InsideFacts
<1>5. Types'
  BY <1>2 DEF ServerInv, Types, sharedVars, handedVars, preambleVars, transportVars
<1>6. Locked'
  BY <1>2, <1>3 DEF ServerInv, Locked, Critical, sharedVars
<1>7. MadeOnce'
  BY <1>2, <1>3 DEF ServerInv, MadeOnce, Keeping, sharedVars
<1>8. Handed'
  BY <1>2, <1>3 DEF ServerInv, Handed, Singletons, sharedVars, handedVars
<1>9. Filled'
  BY <1>2, <1>3 DEF ServerInv, Filled, Keeping, sharedVars, handedVars
<1> QED
  BY <1>4, <1>5, <1>6, <1>7, <1>8, <1>9 DEF ServerInv

LEMMA AcquireKeeps ==
  ASSUME ServerInv, NEW r \in Requests, NEW s \in Singletons, Acquire(r, s)
  PROVE  ServerInv'
<1> USE DEF Acquire
<1>1. at[r].in = s /\ at[r].step = "acquire"
  BY DEF Stands
<1>2. /\ at' \in [Requests -> Standing] /\ at'[r].in = s /\ at'[r].step = "again"
      /\ \A q \in Requests \ {r} : at'[q] = at[q]
  BY <1>1, StepFacts DEF ServerInv, Steps
<1>3. OnLoop' /\ Bounded' /\ Settled'
  BY <1>1, <1>2, InsideFacts
<1>4. Types'
  BY <1>2 DEF ServerInv, Types, Owners, handedVars, preambleVars, transportVars
<1>5. /\ holder[s] = Nobody /\ holder'[s] = r
      /\ \A o \in Singletons \ {s} : holder'[o] = holder[o]
      /\ \A q \in Requests : q # Nobody
  BY ServerAssumption DEF ServerInv, Types
<1>6. Locked'
  BY <1>1, <1>2, <1>5 DEF ServerInv, Locked, Critical
<1>7. MadeOnce'
  BY <1>1, <1>2 DEF ServerInv, MadeOnce, Keeping
<1>8. Handed'
  BY <1>1, <1>2 DEF ServerInv, Handed, Singletons, handedVars
<1>9. Filled'
  BY <1>1, <1>2 DEF ServerInv, Filled, Keeping, handedVars
<1> QED
  BY <1>3, <1>4, <1>6, <1>7, <1>8, <1>9 DEF ServerInv

\* Nobody makes or has made what the holder of the lock still misses.
LEMMA LookAgainKeeps ==
  ASSUME ServerInv, NEW r \in Requests, NEW s \in Singletons, LookAgain(r, s)
  PROVE  ServerInv'
<1> USE DEF LookAgain
<1> DEFINE st == IF single[s] = Nobody THEN "make" ELSE "return"
<1>1. at[r].in = s /\ at[r].step = "again" /\ st \in Steps
  BY DEF Stands, Steps
<1>2. /\ at' \in [Requests -> Standing] /\ at'[r].in = s /\ at'[r].step = st
      /\ \A q \in Requests \ {r} : at'[q] = at[q]
  BY <1>1, StepFacts DEF ServerInv
<1>3. OnLoop' /\ Bounded' /\ Settled'
  BY <1>1, <1>2, InsideFacts
<1>4. Types'
  BY <1>2 DEF ServerInv, Types, sharedVars, handedVars, preambleVars, transportVars
<1>5. Locked'
  BY <1>1, <1>2 DEF ServerInv, Locked, Critical, sharedVars
<1>6. \A q \in Requests : Keeping(q, s) => q = r
  BY <1>1 DEF Keeping, ServerInv, Locked, Critical
<1>7. single[s] = Nobody => made[s] = 0
  BY <1>1, <1>6 DEF ServerInv, MadeOnce, Keeping, Types
<1>8. MadeOnce'
  BY <1>1, <1>2, <1>7 DEF ServerInv, MadeOnce, Keeping, sharedVars
<1>9. Handed'
  BY <1>1, <1>2 DEF ServerInv, Handed, Singletons, sharedVars, handedVars
<1>10. Filled'
  BY <1>1, <1>2 DEF ServerInv, Filled, Keeping, sharedVars, handedVars
<1> QED
  BY <1>3, <1>4, <1>5, <1>8, <1>9, <1>10 DEF ServerInv

\* The tools are in the registry before anybody can get it.
LEMMA MakeKeeps ==
  ASSUME ServerInv, NEW r \in Requests, NEW s \in Singletons, Make(r, s)
  PROVE  ServerInv'
<1> USE DEF Make
<1>1. at[r].in = s /\ at[r].step = "make"
  BY DEF Stands
<1>2. /\ at' \in [Requests -> Standing] /\ at'[r].in = s /\ at'[r].step = "keep"
      /\ \A q \in Requests \ {r} : at'[q] = at[q]
  BY <1>1, StepFacts DEF ServerInv, Steps
<1>3. OnLoop' /\ Bounded' /\ Settled'
  BY <1>1, <1>2, InsideFacts
<1>4. single[s] = Nobody /\ made[s] = 0
  BY <1>1 DEF ServerInv, MadeOnce
<1>5. made'[s] = 1 /\ \A o \in Singletons \ {s} : made'[o] = made[o]
  BY <1>4 DEF ServerInv, Types
<1>6. setting.builtin \subseteq Tools
  BY ServerAssumption DEF ServerInv, Types
<1>7. tools' \subseteq Tools
  BY <1>6 DEF ServerInv, Types
<1>8. Types'
  BY <1>2, <1>7 DEF ServerInv, Types, handedVars, preambleVars, transportVars
<1>9. Locked'
  BY <1>1, <1>2 DEF ServerInv, Locked, Critical
<1>10. \A q \in Requests : at[q].in = s /\ at[q].step \in Critical => q = r
  BY <1>1 DEF ServerInv, Locked, Critical
<1>11. MadeOnce'
  <2>1. Keeping(r, s)'
    BY <1>2 DEF Keeping
  <2>2. \A o \in Singletons, q \in Requests : Keeping(q, o) => Keeping(q, o)'
    BY <1>1, <1>2 DEF Keeping
  <2> QED
    BY <1>1, <1>2, <1>4, <1>5, <1>10, <2>1, <2>2 DEF ServerInv, MadeOnce, Critical
<1>12. Handed'
  BY <1>1, <1>2 DEF ServerInv, Handed, Singletons, handedVars
<1>13. tools' = setting.builtin \/ (tools' = tools /\ s # "registry")
  BY DEF ServerInv, Filled
<1>14. Filled'
  BY <1>1, <1>2, <1>4, <1>13 DEF ServerInv, Filled, Keeping, handedVars
<1> QED
  BY <1>3, <1>8, <1>9, <1>11, <1>12, <1>14 DEF ServerInv

LEMMA KeepKeeps ==
  ASSUME ServerInv, NEW r \in Requests, NEW s \in Singletons, Keep(r, s)
  PROVE  ServerInv'
<1> USE DEF Keep
<1>1. at[r].in = s /\ at[r].step = "keep"
  BY DEF Stands
<1>2. /\ at' \in [Requests -> Standing] /\ at'[r].in = s /\ at'[r].step = "return"
      /\ \A q \in Requests \ {r} : at'[q] = at[q]
  BY <1>1, StepFacts DEF ServerInv, Steps
<1>3. OnLoop' /\ Bounded' /\ Settled'
  BY <1>1, <1>2, InsideFacts
<1>4. /\ single[s] = Nobody /\ single'[s] = r /\ r # Nobody
      /\ \A o \in Singletons \ {s} : single'[o] = single[o]
  BY <1>1, ServerAssumption DEF ServerInv, Types, MadeOnce
<1>5. Types'
  BY <1>2 DEF ServerInv, Types, Owners, handedVars, preambleVars, transportVars
<1>6. Locked'
  BY <1>1, <1>2 DEF ServerInv, Locked, Critical
<1>7. \A q \in Requests : at[q].in = s /\ at[q].step \in Critical => q = r
  BY <1>1 DEF ServerInv, Locked, Critical
<1>8. MadeOnce'
  <2>1. \A o \in Singletons \ {s}, q \in Requests : Keeping(q, o) => Keeping(q, o)'
    BY <1>1, <1>2 DEF Keeping
  <2> QED
    BY <1>1, <1>2, <1>4, <1>7, <2>1 DEF ServerInv, MadeOnce, Critical
<1>9. Handed'
  <2>1. \A q \in Requests : got[q][s] = Nobody
    BY <1>4 DEF ServerInv, Handed
  <2>2. \A o \in Singletons, q \in Requests : got'[q][o] # Nobody => got'[q][o] = single'[o]
    BY <1>4, <2>1 DEF ServerInv, Handed, handedVars
  <2> QED
    BY <1>1, <1>2, <2>2 DEF ServerInv, Handed, Singletons, handedVars
<1>10. s = "registry" => tools = setting.builtin
  BY <1>1 DEF ServerInv, Filled, Keeping
<1>11. Filled'
  BY <1>1, <1>2, <1>4, <1>10 DEF ServerInv, Filled, Keeping, Singletons, handedVars
<1> QED
  BY <1>3, <1>5, <1>6, <1>8, <1>9, <1>11 DEF ServerInv

LEMMA ReturnKeeps ==
  ASSUME ServerInv, NEW r \in Requests, NEW s \in Singletons, Return(r, s)
  PROVE  ServerInv'
<1> USE DEF Return
<1>1. at[r].in = s /\ at[r].step = "return"
  BY DEF Stands
<1>2. /\ Dependent(r, s) \in Places
      /\ Dependent(r, s) # s
      /\ Dependent(r, s) \in {"preamble", "endpoint"} => s = "registry"
  BY DEF Dependent, Places, Singletons
<1>3. /\ at' \in [Requests -> Standing] /\ at'[r].in = Dependent(r, s) /\ at'[r].step = "queued"
      /\ \A q \in Requests \ {r} : at'[q] = at[q]
  BY <1>2, MoveFacts DEF ServerInv, Steps
<1>4. OnLoop' /\ Bounded' /\ Settled'
  BY <1>1, <1>3, InsideFacts
<1>5. /\ holder' \in [Singletons -> Owners]
      /\ holder'[s] # r
      /\ \A o \in Singletons, q \in Requests : holder'[o] = q <=> holder[o] = q /\ ~(o = s /\ q = r)
  BY ServerAssumption DEF ServerInv, Types, Owners
<1>6. /\ got' \in [Requests -> [Singletons -> Owners]]
      /\ got'[r][s] = single[s]
      /\ \A q \in Requests, o \in Singletons : ~(o = s /\ q = r) => got'[q][o] = got[q][o]
  BY DEF ServerInv, Types
<1>7. Types'
  BY <1>3, <1>5, <1>6 DEF ServerInv, Types, preambleVars, transportVars
<1>8. Locked'
  BY <1>1, <1>3, <1>5 DEF ServerInv, Locked, Critical
<1>9. MadeOnce'
  <2>1. \A o \in Singletons, q \in Requests : Keeping(q, o) => Keeping(q, o)'
    BY <1>1, <1>3 DEF Keeping
  <2> QED
    BY <1>3, <2>1 DEF ServerInv, MadeOnce
<1>10. single[s] # Nobody
  BY <1>1 DEF ServerInv, MadeOnce
<1>11. Handed'
  BY <1>1, <1>2, <1>3, <1>6, <1>10 DEF ServerInv, Handed, Singletons
<1>12. Filled'
  BY <1>1, <1>3 DEF ServerInv, Filled, Keeping
<1> QED
  BY <1>4, <1>7, <1>8, <1>9, <1>11, <1>12 DEF ServerInv
-----------------------------------------------------------------------------
(* The steps outside of get_engine and get_registry. *)

LEMMA LookUpKeeps ==
  ASSUME ServerInv, NEW r \in Requests, LookUp(r)
  PROVE  ServerInv'
<1> USE DEF LookUp
<1>1. at[r].in = "preamble" /\ at[r].step = "queued" /\ Cardinality(OnThread) < Threads
  BY DEF Dispatched
<1>2. /\ at' \in [Requests -> Standing]
      /\ \A q \in Requests \ {r} : at'[q] = at[q]
      /\ cached = -1 => at'[r].in = "preamble" /\ at'[r].step = "read"
      /\ cached # -1 => at'[r].in = "endpoint" /\ at'[r].step = "queued"
  BY <1>1, StepFacts, MoveFacts DEF ServerInv, Steps, Places
<1>3. Locked' /\ MadeOnce' /\ Handed' /\ Filled' /\ saw' = saw
  BY <1>1, <1>2, ElsewhereFacts DEF Critical, handedVars
<1>4. Bounded'
  BY <1>1, <1>2, ThreadFacts DEF ServerInv
<1>5. OnLoop'
  BY <1>1, <1>2 DEF ServerInv, OnLoop, transportVars
<1>6. Settled'
  BY <1>1, <1>2 DEF ServerInv, Settled, Types
<1>7. Types'
  <2>1. preamble' \in [Requests -> Int] /\ behind' \subseteq Requests
    BY DEF ServerInv, Types
  <2> QED
    BY <1>2, <2>1 DEF ServerInv, Types, sharedVars, handedVars, transportVars
<1> QED
  BY <1>3, <1>4, <1>5, <1>6, <1>7 DEF ServerInv

LEMMA ReadKeeps ==
  ASSUME ServerInv, NEW r \in Requests, Read(r)
  PROVE  ServerInv'
<1> USE DEF Read
<1>1. at[r].in = "preamble" /\ at[r].step = "read"
  BY DEF Stands
<1>2. /\ at' \in [Requests -> Standing]
      /\ \A q \in Requests \ {r} : at'[q] = at[q]
      /\ at'[r].in = "preamble" /\ at'[r].step = "cache"
  BY <1>1, StepFacts DEF ServerInv, Steps
<1>3. Locked' /\ MadeOnce' /\ Handed' /\ Filled' /\ saw' = saw
  BY <1>1, <1>2, ElsewhereFacts DEF Critical, handedVars
<1>4. r \in OnThread' => r \in OnThread
  BY <1>1 DEF OnThread
<1>5. Bounded'
  BY <1>2, <1>4, ThreadFacts DEF ServerInv
<1>6. OnLoop'
  BY <1>1, <1>2 DEF ServerInv, OnLoop, transportVars
<1>7. r \notin behind
  BY <1>1 DEF ServerInv, Settled
<1>8. Settled'
  BY <1>2, <1>7 DEF ServerInv, Settled, Types
<1>9. Types'
  BY <1>2 DEF ServerInv, Types, sharedVars, handedVars, transportVars
<1> QED
  BY <1>3, <1>5, <1>6, <1>8, <1>9 DEF ServerInv

\* A value that is cached is not replaced.
LEMMA StoreKeeps ==
  ASSUME ServerInv, NEW r \in Requests, Store(r)
  PROVE  ServerInv'
<1> USE DEF Store
<1>1. at[r].in = "preamble" /\ at[r].step = "cache"
  BY DEF Stands
<1>2. /\ at' \in [Requests -> Standing]
      /\ \A q \in Requests \ {r} : at'[q] = at[q]
      /\ at'[r].in = "endpoint" /\ at'[r].step = "queued"
  BY <1>1, MoveFacts DEF ServerInv, Steps, Places
<1>3. Locked' /\ MadeOnce' /\ Handed' /\ Filled' /\ saw' = saw
  BY <1>1, <1>2, ElsewhereFacts DEF Critical, handedVars
<1>4. r \in OnThread' => r \in OnThread
  BY <1>1 DEF OnThread
<1>5. Bounded'
  BY <1>2, <1>4, ThreadFacts DEF ServerInv
<1>6. OnLoop'
  BY <1>1, <1>2 DEF ServerInv, OnLoop, transportVars
<1>7. Settled'
  BY <1>1, <1>2 DEF ServerInv, Settled, Types
<1>8. Types'
  BY <1>2 DEF ServerInv, Types, sharedVars, handedVars, transportVars
<1> QED
  BY <1>3, <1>5, <1>6, <1>7, <1>8 DEF ServerInv

LEMMA CompileFacts ==
  ASSUME ServerInv, NEW r \in Requests, at[r].in = "endpoint", NEW onward \in Steps, Compile(r, onward)
  PROVE  /\ at' \in [Requests -> Standing]
         /\ \A q \in Requests \ {r} : at'[q] = at[q]
         /\ at'[r].in = "endpoint" /\ at'[r].step \in {onward, "answered"}
         /\ saw' = saw \/ saw' = [saw EXCEPT ![r] = {tools}]
BY StepFacts DEF ServerInv, Compile, Steps

LEMMA OnAThreadKeeps ==
  ASSUME ServerInv, NEW r \in Requests, OnAThread(r)
  PROVE  ServerInv'
<1> USE DEF OnAThread
<1>1. at[r].in = "endpoint" /\ at[r].step = "queued" /\ Cardinality(OnThread) < Threads
  BY DEF Dispatched
<1>2. /\ at' \in [Requests -> Standing]
      /\ \A q \in Requests \ {r} : at'[q] = at[q]
      /\ at'[r].in = "endpoint" /\ at'[r].step \in {"model", "answered"}
      /\ saw' = saw \/ saw' = [saw EXCEPT ![r] = {tools}]
  BY <1>1, CompileFacts DEF Steps
<1>3. Locked' /\ MadeOnce' /\ Handed' /\ Filled' /\ saw' \in [Requests -> SUBSET (SUBSET Tools)]
  BY <1>1, <1>2, ElsewhereFacts DEF Critical
<1>4. Bounded'
  BY <1>1, <1>2, ThreadFacts DEF ServerInv
<1>5. OnLoop'
  BY <1>1, <1>2 DEF ServerInv, OnLoop, transportVars
<1>6. Settled'
  BY <1>1, <1>2 DEF ServerInv, Settled, preambleVars, Types
<1>7. Types'
  BY <1>2, <1>3 DEF ServerInv, Types, sharedVars, preambleVars, transportVars
<1> QED
  BY <1>3, <1>4, <1>5, <1>6, <1>7 DEF ServerInv

LEMMA OnTheLoopKeeps ==
  ASSUME ServerInv, NEW r \in Requests, OnTheLoop(r)
  PROVE  ServerInv'
<1> USE DEF OnTheLoop
<1>1. at[r].in = "endpoint" /\ at[r].step = "queued"
  BY DEF Stands
<1>2. /\ at' \in [Requests -> Standing]
      /\ \A q \in Requests \ {r} : at'[q] = at[q]
      /\ at'[r].in = "endpoint" /\ at'[r].step \in {"between", "answered"}
      /\ saw' = saw \/ saw' = [saw EXCEPT ![r] = {tools}]
  BY <1>1, CompileFacts DEF Steps
<1>3. Locked' /\ MadeOnce' /\ Handed' /\ Filled' /\ saw' \in [Requests -> SUBSET (SUBSET Tools)]
  BY <1>1, <1>2, ElsewhereFacts DEF Critical
<1>4. r \notin OnThread'
  BY <1>2 DEF OnThread
<1>5. Bounded'
  BY <1>2, <1>4, ThreadFacts DEF ServerInv
<1>6. OnLoop'
  BY <1>1, <1>2 DEF ServerInv, OnLoop, transportVars
<1>7. Settled'
  BY <1>1, <1>2 DEF ServerInv, Settled, preambleVars, Types
<1>8. Types'
  BY <1>2, <1>3 DEF ServerInv, Types, sharedVars, preambleVars, transportVars
<1> QED
  BY <1>3, <1>5, <1>6, <1>7, <1>8 DEF ServerInv

LEMMA NextChunkKeeps ==
  ASSUME ServerInv, NEW r \in Requests, NextChunk(r)
  PROVE  ServerInv'
<1> USE DEF NextChunk
<1>1. at[r].in = "endpoint" /\ at[r].step = "between" /\ loop = Nobody
  BY DEF Stands, LoopFree
<1>2. /\ at' \in [Requests -> Standing]
      /\ \A q \in Requests \ {r} : at'[q] = at[q]
      /\ at'[r].in = "endpoint"
      /\ \/ at'[r].step = "model" /\ Cardinality(OnThread) < Threads /\ loop' = Nobody
         \/ at'[r].step = "onloop" /\ loop' = r
  BY <1>1, StepFacts DEF ServerInv, Steps
<1>3. Locked' /\ MadeOnce' /\ Handed' /\ Filled' /\ saw' = saw
  BY <1>1, <1>2, ElsewhereFacts DEF Critical, handedVars
<1>4. r \in OnThread' => Cardinality(OnThread) < Threads
  BY <1>2 DEF OnThread
<1>5. Bounded'
  BY <1>2, <1>4, ThreadFacts DEF ServerInv
<1>6. OnLoop'
  BY <1>1, <1>2, ServerAssumption DEF ServerInv, OnLoop
<1>7. Settled'
  BY <1>1, <1>2 DEF ServerInv, Settled, preambleVars, Types
<1>8. loop' \in Owners
  BY <1>2 DEF Owners
<1>9. Types'
  BY <1>2, <1>8 DEF ServerInv, Types, sharedVars, handedVars, preambleVars
<1> QED
  BY <1>3, <1>5, <1>6, <1>7, <1>9 DEF ServerInv

LEMMA ModelEndsKeeps ==
  ASSUME ServerInv, NEW r \in Requests, ModelEnds(r)
  PROVE  ServerInv'
<1> USE DEF ModelEnds
<1>1. at[r].step \in {"model", "onloop"}
  OBVIOUS
<1>2. /\ at' \in [Requests -> Standing]
      /\ \A q \in Requests \ {r} : at'[q] = at[q]
      /\ at'[r].in = at[r].in /\ at'[r].step \in {"between", "answered"}
  BY StepFacts DEF ServerInv, Steps
<1>3. Locked' /\ MadeOnce' /\ Handed' /\ Filled' /\ saw' = saw
  BY <1>1, <1>2, ElsewhereFacts DEF Critical, handedVars
<1>4. r \notin OnThread'
  BY <1>2 DEF OnThread
<1>5. Bounded'
  BY <1>2, <1>4, ThreadFacts DEF ServerInv
<1>6. OnLoop'
  BY <1>1, <1>2, ServerAssumption DEF ServerInv, OnLoop, Types, Owners
<1>7. Settled'
  BY <1>1, <1>2 DEF ServerInv, Settled, preambleVars, Types
<1>8. loop' \in Owners
  BY DEF ServerInv, Types, Owners
<1>9. Types'
  BY <1>2, <1>8 DEF ServerInv, Types, sharedVars, handedVars, preambleVars
<1> QED
  BY <1>3, <1>5, <1>6, <1>7, <1>9 DEF ServerInv

LEMMA EditKeeps ==
  ASSUME ServerInv, Edit
  PROVE  ServerInv'
<1>1. Types'
  BY DEF ServerInv, Edit, Types, sharedVars, handedVars, transportVars
<1>2. Bounded' /\ OnLoop' /\ Locked'
  BY DEF ServerInv, Edit, Bounded, OnThread, OnLoop, Locked, sharedVars, transportVars
<1>3. MadeOnce' /\ Handed' /\ Filled' /\ Settled'
  BY DEF ServerInv, Edit, MadeOnce, Keeping, Handed, Filled, Settled, sharedVars, handedVars
<1> QED
  BY <1>1, <1>2, <1>3 DEF ServerInv
-----------------------------------------------------------------------------
LEMMA InitHolds == Init => ServerInv
<1> SUFFICES ASSUME Init PROVE ServerInv
  OBVIOUS
<1> USE DEF Init
<1>1. Types
  BY DEF Types, Standing, Places, Steps, Owners, Singletons
<1>2. Locked /\ MadeOnce /\ Handed /\ Settled /\ OnLoop
  BY ServerAssumption DEF Locked, MadeOnce, Handed, Settled, OnLoop, Critical, Singletons
<1>3. Filled
  BY DEF Filled, Keeping, Singletons
<1>4. OnThread = {}
  BY DEF OnThread
<1>5. Bounded
  BY <1>4, ServerAssumption, FS_EmptySet DEF Bounded
<1> QED
  BY <1>1, <1>2, <1>3, <1>5 DEF ServerInv

LEMMA InvariantKept == ServerInv /\ [Next]_vars => ServerInv'
<1> SUFFICES ASSUME ServerInv, [Next]_vars PROVE ServerInv'
  OBVIOUS
<1>1. CASE Edit
  BY <1>1, EditKeeps
<1>2. CASE \E r \in Requests : Proceed(r)
  <2>1. PICK r \in Requests : Proceed(r)
    BY <1>2
  <2>2. CASE \E s \in Singletons :
               Look(r, s) \/ Acquire(r, s) \/ LookAgain(r, s) \/ Make(r, s) \/ Keep(r, s) \/ Return(r, s)
    BY <2>2, LookKeeps, AcquireKeeps, LookAgainKeeps, MakeKeeps, KeepKeeps, ReturnKeeps
  <2>3. CASE LookUp(r) \/ Read(r) \/ Store(r)
    BY <2>3, LookUpKeeps, ReadKeeps, StoreKeeps
  <2>4. CASE OnAThread(r) \/ OnTheLoop(r) \/ NextChunk(r)
    BY <2>4, OnAThreadKeeps, OnTheLoopKeeps, NextChunkKeeps
  <2> QED
    BY <2>1, <2>2, <2>3, <2>4 DEF Proceed
<1>3. CASE \E r \in Requests : ModelEnds(r)
  BY <1>3, ModelEndsKeeps
<1>4. CASE UNCHANGED vars
  <2>1. Types' /\ Locked' /\ OnLoop' /\ Bounded'
    BY <1>4 DEF ServerInv, Types, Locked, OnLoop, Bounded, OnThread,
      vars, sharedVars, handedVars, preambleVars, transportVars
  <2>2. MadeOnce' /\ Handed' /\ Filled' /\ Settled'
    BY <1>4 DEF ServerInv, MadeOnce, Keeping, Handed, Filled, Settled,
      vars, sharedVars, handedVars, preambleVars
  <2> QED
    BY <2>1, <2>2 DEF ServerInv
<1> QED
  BY <1>1, <1>2, <1>3, <1>4 DEF Next

LEMMA Invariance == Spec => []ServerInv
BY InitHolds, InvariantKept, PTL DEF Spec

(***************************************************************************)
(* However many requests arrive together, one engine and one registry are  *)
(* made, and every request is handed those; locks are held where the code  *)
(* holds them, and the pool is not exceeded.                               *)
(***************************************************************************)
THEOREM SingletonsShared == Spec => []SingletonsAreShared
<1>1. ServerInv => TypeOK
  BY DEF ServerInv, Types, Locked, OnLoop, Bounded, TypeOK, Standing, Places, Owners, Critical
<1>2. ServerInv => \A s \in Singletons :
        made[s] <= 1 /\ \A r \in Requests : got[r][s] # Nobody => got[r][s] = single[s]
  BY DEF ServerInv, MadeOnce, Handed
<1>3. ServerInv => SingletonsAreShared
  BY <1>1, <1>2 DEF SingletonsAreShared
<1> QED
  BY <1>3, Invariance, PTL

(***************************************************************************)
(* No request is handed, or compiled against, a registry that is still     *)
(* being filled.                                                           *)
(***************************************************************************)
THEOREM RegistryFilled == Spec => []RegistryIsFilledFirst
<1>1. ServerInv => RegistryIsFilledFirst
  BY DEF ServerInv, Handed, Filled, RegistryIsFilledFirst, Singletons
<1> QED
  BY <1>1, Invariance, PTL

(***************************************************************************)
(* Once a version of the preamble is cached, every request that asks for   *)
(* it is given that one, whatever late readers and editors do.             *)
(***************************************************************************)
THEOREM PreambleStays == Spec => []PreambleSettles
<1>1. ServerInv => PreambleSettles
  BY DEF ServerInv, Settled, PreambleSettles
<1> QED
  BY <1>1, Invariance, PTL

-----------------------------------------------------------------------------
(* The streamed response. *)

Events == [type : ChunkTypes \cup {"error", "end"}, index : Int,
           told : Calls \cup {NoCall}, of : Calls \cup {NoCall}]
ChunkEvents == {e \in Events : e.type \in ChunkTypes}
StartedCalls == UNION {[K -> Calls] : K \in SUBSET Nat}

\* What the client was told of the calls in q is what the generator remembers.
Assembled(p, st, q) ==
  /\ \A i \in DOMAIN q : q[i].type = "tool_call.start" =>
       q[i].index \in DOMAIN st /\ q[i].told = st[q[i].index]
  /\ \A i, j \in DOMAIN q :
       /\ i < j /\ q[i].index = q[j].index
       /\ q[i].type = "tool_call.start" /\ q[j].type \in {"tool_call.start", "tool_call.delta"}
       => /\ q[j].type = "tool_call.delta" /\ q[j].told = q[i].told
          /\ p = "openai" => q[j].told = q[j].of

\* A number that OpenAI uses again is of the call that was started with it.
Numbered(p, st) ==
  p = "openai" => \A f \in OpenAIFragments : Index(f) \in DOMAIN st => st[Index(f)] = f.of

\* The accumulators of a fold over the fragments of one event, after the events q.
Accumulators(p, q) ==
  {acc \in [started : StartedCalls, chunks : Seq(ChunkEvents)] :
     Assembled(p, acc.started, q \o acc.chunks) /\ Numbered(p, acc.started)}
StreamTypes ==
  /\ policy \in {"RetryAndRepair", "Refuse", "Ignore"}
  /\ maxAttempts \in Int /\ attempts \in Nat /\ instructions \in Seq(Outputs)
  /\ answer \in {"none", "json", "text", "refused", "raised", "empty"}
  /\ path \in {"refused", "structured", "openai", "gemini"}
  /\ manual \in BOOLEAN /\ here \in BOOLEAN
  /\ pc \in {"ask", "script", "chunks", "record", "error", "end", "closed"}
  /\ script \in Seq(ChunkEvents) /\ sent \in Seq(Events)
  /\ turns \in {0, 1} /\ sink \in Seq({0})

\* While there is no answer, every attempt so far is quoted by an instruction.
RepairInv ==
  /\ attempts > 0 => attempts <= maxAttempts
  /\ instructions # << >> => Len(instructions) < maxAttempts
  /\ answer = "none" =>
       Len(instructions) = attempts /\ (attempts > 0 => attempts < maxAttempts)
  /\ policy # "Ignore" /\ answer \in {"text", "refused"} =>
       attempts = maxAttempts /\ Len(instructions) = attempts - 1
  /\ answer = "empty" => maxAttempts <= 0
  /\ policy = "Refuse" => answer # "text"

\* Where a turn that ends in each way has been.
TurnInv ==
  /\ pc = "ask" => path = "structured" /\ sent = << >> /\ script = << >> /\ answer = "none"
  /\ pc = "script" => path \in {"refused", "structured"}
  /\ pc = "chunks" => path \in {"openai", "gemini"}
  /\ pc = "error" => path # "refused" /\ (path = "structured" => sent = << >>)
  /\ turns = 1 => pc \in {"end", "closed"}
  /\ pc = "record" \/ turns = 1 =>
       /\ path # "refused" /\ Sent("error") = {}
       /\ path = "structured" => script = << >> /\ Sent("message.end") # {}

\* What a structured turn yields, or has yielded, has an answer behind it.
YieldInv ==
  path = "structured" =>
    /\ pc = "script" => \/ Sent("message.end") # {}
                        \/ \E i \in DOMAIN script : script[i].type = "message.end"
    /\ \A i \in DOMAIN sent : sent[i].type = "role" => answer \in {"json", "text", "empty"}
    /\ \A i \in DOMAIN sent : sent[i].type = "content.delta" => answer \in {"json", "text"}
    /\ \A i \in DOMAIN script : script[i].type = "role" => answer \in {"json", "text", "empty"}
    /\ \A i \in DOMAIN script : script[i].type = "content.delta" => answer \in {"json", "text"}
    /\ Sent("error") # {} => sent[1].type = "error"

FrameInv ==
  /\ Sent("error") # {} => pc \in {"end", "closed"} /\ turns = 0
  /\ \A i \in Sent("error") : i = Len(sent) \/ (pc = "closed" /\ sent[i + 1].type = "end")
  /\ \A i \in Sent("end") : pc = "closed" /\ i = Len(sent)
  /\ pc = "closed" /\ here => Sent("end") # {}

SinkInv == Len(sink) = IF EmitUsage THEN Cardinality(Sent("message.end")) ELSE 0

\* What was sent, and what is yet to be sent, fits the calls that are started.
CallsInv ==
  /\ Numbered(path, started) /\ Assembled(path, started, sent)
  /\ pc \in {"script", "chunks"} => Assembled(path, started, sent \o script)

StreamInv ==
  /\ StreamTypes /\ started \in StartedCalls
  /\ RepairInv /\ TurnInv /\ YieldInv /\ FrameInv /\ SinkInv /\ CallsInv
-----------------------------------------------------------------------------
\* A set of natural numbers that has an element has a least one.
LEMMA LeastNat ==
  ASSUME NEW T \in SUBSET Nat, T # {}
  PROVE  \E k \in T : \A l \in T : k <= l
<1>1. PICK k \in T : \A l \in T : ~ (<< l, k >> \in OpToRel(<, Nat))
  BY NatLessThanWellFounded, WFMin
<1>2. \A l \in T : ~ (l < k)
  BY <1>1 DEF OpToRel
<1> QED
  BY <1>2

\* What every step of a recursion keeps holds at its end.
LEMMA RecursionKeeps ==
  ASSUME NEW N \in Nat, NEW A, NEW f, f[0] \in A,
         \A n \in 1 .. N : f[n - 1] \in A => f[n] \in A
  PROVE  f[N] \in A
<1> DEFINE T == {n \in 0 .. N : f[n] \notin A}
<1>1. SUFFICES ASSUME T # {} PROVE FALSE
  OBVIOUS
<1>2. PICK k \in T : \A l \in T : k <= l
  <2>1. T \in SUBSET Nat
    OBVIOUS
  <2> HIDE DEF T
  <2> QED
    BY <1>1, <2>1, LeastNat
<1>3. k # 0
  BY <1>2
<1>4. k \in 1 .. N /\ k - 1 \in 0 .. N /\ ~ (k <= k - 1)
  BY <1>2, <1>3
<1>5. k - 1 \notin T
  BY <1>2, <1>4
<1>6. f[k - 1] \in A
  BY <1>4, <1>5
<1> QED
  BY <1>2, <1>4, <1>6

\* f goes from acc through A in N steps, each of them as G says.
Recursion(f, A, N, acc, G) ==
  f \in [0 .. N -> A] /\ f[0] = acc /\ \A n \in 1 .. N : f[n] = G[n][f[n - 1]]

\* A recursion whose steps stay in a set has a solution.
LEMMA RecursionExists ==
  ASSUME NEW N \in Nat, NEW A, NEW acc \in A, NEW G,
         \A n \in 1 .. N : \A a \in A : G[n][a] \in A
  PROVE  \E f : Recursion(f, A, N, acc, G)
<1> DEFINE Solves(f, l) ==
             /\ f[0] = acc /\ \A n \in 0 .. l : f[n] \in A
             /\ \A n \in 1 .. l : f[n] = G[n][f[n - 1]]
           T == {l \in 0 .. N : ~ \E f : Solves(f, l)}
<1>1. \E f : Solves(f, N)
  <2>1. SUFFICES ASSUME T # {} PROVE FALSE
    <3>1. N \in 0 .. N
      OBVIOUS
    <3> QED
      BY <2>1, <3>1
  <2>2. T \in SUBSET Nat
    OBVIOUS
  <2>3. PICK l \in T : \A k \in T : l <= k
    BY <2>1, <2>2, LeastNat
  <2>4. l # 0
    <3>1. Solves([n \in 0 .. 0 |-> acc], 0)
      OBVIOUS
    <3> QED
      BY <2>3, <3>1, ZenonT(60)
  <2>5. l \in 1 .. N /\ l - 1 \in 0 .. N /\ ~ (l <= l - 1)
    BY <2>3, <2>4
  <2>6. PICK f : Solves(f, l - 1)
    BY <2>3, <2>5
  <2> DEFINE g == [n \in 0 .. l |-> IF n = l THEN G[l][f[l - 1]] ELSE f[n]]
  <2>7. f[l - 1] \in A
    <3>1. l - 1 \in 0 .. l - 1
      BY <2>5
    <3> QED
      BY <2>5, <2>6, <3>1
  <2>8. G[l][f[l - 1]] \in A
    BY <2>5, <2>7
  <2>9. g[l] = G[l][f[l - 1]] /\ \A n \in 0 .. l - 1 : g[n] = f[n]
    BY <2>5
  <2>10. g[0] = acc
    BY <2>5, <2>6, <2>9
  <2>11. \A n \in 0 .. l : g[n] \in A
    <3>1. TAKE n \in 0 .. l
    <3>2. n = l \/ n \in 0 .. l - 1
      BY <2>5, <3>1
    <3> HIDE DEF g
    <3> QED
      BY <2>6, <2>8, <2>9, <3>2
  <2>12. \A n \in 1 .. l : g[n] = G[n][g[n - 1]]
    <3>1. TAKE n \in 1 .. l
    <3>2. n - 1 \in 0 .. l - 1
      BY <2>5, <3>1
    <3>3. n = l \/ (n \in 1 .. l - 1 /\ n \in 0 .. l - 1)
      BY <2>5, <3>1
    <3> HIDE DEF g
    <3>4. CASE n = l
      BY <2>9, <3>2, <3>4
    <3>5. CASE n \in 1 .. l - 1 /\ n \in 0 .. l - 1
      BY <2>6, <2>9, <3>2, <3>5
    <3> QED
      BY <3>3, <3>4, <3>5
  <2>13. Solves(g, l)
    BY <2>10, <2>11, <2>12
  <2> QED
    BY <2>3, <2>13
<1>2. PICK f : Solves(f, N)
  BY <1>1
<1> DEFINE h == [n \in 0 .. N |-> f[n]]
<1>3. \A n \in 0 .. N : h[n] = f[n]
  OBVIOUS
<1>4. h \in [0 .. N -> A]
  BY <1>2
<1>5. 0 \in 0 .. N /\ \A n \in 1 .. N : n \in 0 .. N /\ n - 1 \in 0 .. N
  OBVIOUS
<1> HIDE DEF h
<1>6. h[0] = acc /\ \A n \in 1 .. N : h[n] = G[n][h[n - 1]]
  BY <1>2, <1>3, <1>5
<1> QED
  BY <1>4, <1>6 DEF Recursion

\* What TakeFragment keeps, reading all fragments keeps.
LEMMA FragmentsKeep ==
  ASSUME NEW A, NEW F, NEW acc \in A, NEW s \in Seq(F),
         \A a \in A, e \in F : TakeFragment(a, e) \in A
  PROVE  TakeFragments(acc, s) \in A
<1> DEFINE N == Len(s)
           G == [n \in 1 .. N |-> [a \in A |-> TakeFragment(a, s[n])]]
           Solves(f) == f = [n \in 0 .. Len(s) |->
                               IF n = 0 THEN acc ELSE TakeFragment(f[n - 1], s[n])]
           taken == CHOOSE f : Solves(f)
<1>1. N \in Nat /\ \A n \in 1 .. N : s[n] \in F
  OBVIOUS
<1>2. \E f : Solves(f)
  <2>1. \A n \in 1 .. N : \A a \in A : G[n][a] \in A
    BY <1>1
  <2>2. PICK f : Recursion(f, A, N, acc, G)
    <3> HIDE DEF G, N, Solves, taken
    <3> QED
      BY <1>1, <2>1, RecursionExists
  <2>3. \A n \in 0 .. N : f[n] = IF n = 0 THEN acc ELSE TakeFragment(f[n - 1], s[n])
    <3>1. TAKE n \in 0 .. N
    <3>2. CASE n = 0
      BY <2>2, <3>2 DEF Recursion
    <3>3. CASE n # 0
      <4>1. n \in 1 .. N /\ n - 1 \in 0 .. N
        BY <1>1, <3>3
      <4> QED
        BY <2>2, <3>3, <4>1 DEF Recursion
    <3> QED
      BY <3>2, <3>3
  <2>4. f = [n \in 0 .. N |-> IF n = 0 THEN acc ELSE TakeFragment(f[n - 1], s[n])]
    <3>1. f = [n \in 0 .. N |-> f[n]]
      BY <2>2 DEF Recursion
    <3>2. [n \in 0 .. N |-> f[n]]
            = [n \in 0 .. N |-> IF n = 0 THEN acc ELSE TakeFragment(f[n - 1], s[n])]
      BY <2>3
    <3> QED
      BY <3>1, <3>2
  <2>5. Solves(f)
    BY <2>4
  <2> QED
    BY <2>5
<1>3. Solves(taken)
  BY <1>2
<1>4. TakeFragments(acc, s) = taken[N]
  BY DEF TakeFragments
<1> HIDE DEF taken
<1>5. \A n \in 0 .. N : taken[n] = IF n = 0 THEN acc ELSE TakeFragment(taken[n - 1], s[n])
  BY <1>3
<1>6. taken[0] \in A
  BY <1>1, <1>5
<1>7. \A n \in 1 .. N : taken[n - 1] \in A => taken[n] \in A
  <2>1. TAKE n \in 1 .. N
  <2>2. n \in 0 .. N /\ n # 0
    BY <1>1
  <2> QED
    BY <1>1, <1>5, <2>2
<1>8. taken[N] \in A
  <2> HIDE DEF N
  <2> QED
    BY <1>1, <1>6, <1>7, RecursionKeeps
<1> QED
  BY <1>4, <1>8

\* What TakePart keeps, reading all parts keeps.
LEMMA PartsKeep ==
  ASSUME NEW A, NEW F, NEW acc \in A, NEW s \in Seq(F),
         \A a \in A, e \in F : TakePart(a, e) \in A
  PROVE  TakeParts(acc, s) \in A
<1> DEFINE N == Len(s)
           G == [n \in 1 .. N |-> [a \in A |-> TakePart(a, s[n])]]
           Solves(f) == f = [n \in 0 .. Len(s) |->
                               IF n = 0 THEN acc ELSE TakePart(f[n - 1], s[n])]
           taken == CHOOSE f : Solves(f)
<1>1. N \in Nat /\ \A n \in 1 .. N : s[n] \in F
  OBVIOUS
<1>2. \E f : Solves(f)
  <2>1. \A n \in 1 .. N : \A a \in A : G[n][a] \in A
    BY <1>1
  <2>2. PICK f : Recursion(f, A, N, acc, G)
    <3> HIDE DEF G, N, Solves, taken
    <3> QED
      BY <1>1, <2>1, RecursionExists
  <2>3. \A n \in 0 .. N : f[n] = IF n = 0 THEN acc ELSE TakePart(f[n - 1], s[n])
    <3>1. TAKE n \in 0 .. N
    <3>2. CASE n = 0
      BY <2>2, <3>2 DEF Recursion
    <3>3. CASE n # 0
      <4>1. n \in 1 .. N /\ n - 1 \in 0 .. N
        BY <1>1, <3>3
      <4> QED
        BY <2>2, <3>3, <4>1 DEF Recursion
    <3> QED
      BY <3>2, <3>3
  <2>4. f = [n \in 0 .. N |-> IF n = 0 THEN acc ELSE TakePart(f[n - 1], s[n])]
    <3>1. f = [n \in 0 .. N |-> f[n]]
      BY <2>2 DEF Recursion
    <3>2. [n \in 0 .. N |-> f[n]]
            = [n \in 0 .. N |-> IF n = 0 THEN acc ELSE TakePart(f[n - 1], s[n])]
      BY <2>3
    <3> QED
      BY <3>1, <3>2
  <2>5. Solves(f)
    BY <2>4
  <2> QED
    BY <2>5
<1>3. Solves(taken)
  BY <1>2
<1>4. TakeParts(acc, s) = taken[N]
  BY DEF TakeParts
<1> HIDE DEF taken
<1>5. \A n \in 0 .. N : taken[n] = IF n = 0 THEN acc ELSE TakePart(taken[n - 1], s[n])
  BY <1>3
<1>6. taken[0] \in A
  BY <1>1, <1>5
<1>7. \A n \in 1 .. N : taken[n - 1] \in A => taken[n] \in A
  <2>1. TAKE n \in 1 .. N
  <2>2. n \in 0 .. N /\ n # 0
    BY <1>1
  <2> QED
    BY <1>1, <1>5, <2>2
<1>8. taken[N] \in A
  <2> HIDE DEF N
  <2> QED
    BY <1>1, <1>6, <1>7, RecursionKeeps
<1> QED
  BY <1>4, <1>8

-----------------------------------------------------------------------------
\* The record of a chunk that is of no call.
LEMMA ChunkFacts ==
  ASSUME NEW type \in ChunkTypes \cup {"error", "end"}
  PROVE  /\ Chunk(type) \in Events /\ Chunk(type).type = type
         /\ type \in ChunkTypes => Chunk(type) \in ChunkEvents
BY DEF Chunk, ChunkEvents, Events, NoIndex

\* The record of a chunk that is of a call.
LEMMA OfCallFacts ==
  ASSUME NEW type \in {"tool_call.start", "tool_call.delta"}, NEW k \in Nat,
         NEW told \in Calls \cup {NoCall}, NEW c \in Calls
  PROVE  /\ OfCall(type, k, told, c) \in ChunkEvents /\ OfCall(type, k, told, c) \in Events
         /\ OfCall(type, k, told, c).type = type /\ OfCall(type, k, told, c).index = k
         /\ OfCall(type, k, told, c).told = told /\ OfCall(type, k, told, c).of = c
BY DEF OfCall, ChunkEvents, Events, ChunkTypes

\* A fragment has a number, given or not, and a call.
LEMMA FragmentFacts ==
  ASSUME NEW f \in Fragments
  PROVE  Index(f) \in Nat /\ f.of \in Calls /\ f.named \in BOOLEAN /\ f.args \in BOOLEAN
BY DEF Fragments, Index, NoIndex

\* A call is added to those that are started.
LEMMA WithCallFacts ==
  ASSUME NEW st \in StartedCalls, NEW k \in Nat, NEW c \in Calls
  PROVE  /\ WithCall(st, k, c) \in StartedCalls
         /\ DOMAIN WithCall(st, k, c) = DOMAIN st \cup {k}
         /\ WithCall(st, k, c)[k] = c
         /\ \A l \in DOMAIN st : l # k => WithCall(st, k, c)[l] = st[l]
<1>1. PICK K \in SUBSET Nat : st \in [K -> Calls]
  BY DEF StartedCalls
<1>2. DOMAIN st = K /\ DOMAIN st \cup {k} \in SUBSET Nat
  BY <1>1
<1>3. WithCall(st, k, c) \in [DOMAIN st \cup {k} -> Calls]
  BY <1>1, <1>2 DEF WithCall
<1>4. WithCall(st, k, c) \in StartedCalls
  BY <1>2, <1>3 DEF StartedCalls
<1> QED
  BY <1>4 DEF WithCall

\* A chunk of a sequence that grew by one is an old one or the new one.
LEMMA AppendFacts ==
  ASSUME NEW S, NEW q \in Seq(S), NEW e \in S
  PROVE  /\ Append(q, e) \in Seq(S) /\ Len(Append(q, e)) = Len(q) + 1
         /\ Append(q, e)[Len(q) + 1] = e /\ Len(q) \in Nat
         /\ \A i \in DOMAIN q : Append(q, e)[i] = q[i] /\ i \in DOMAIN Append(q, e)
         /\ \A i \in DOMAIN Append(q, e) : i \in DOMAIN q \/ i = Len(q) + 1
         /\ DOMAIN q = 1 .. Len(q) /\ DOMAIN Append(q, e) = 1 .. Len(q) + 1
OBVIOUS

\* A chunk that is of no call leaves the client's picture as it is.
LEMMA PlainKeeps ==
  ASSUME NEW p, NEW st \in StartedCalls, NEW q \in Seq(Events), Assembled(p, st, q),
         NEW e \in Events, e.type \notin {"tool_call.start", "tool_call.delta"}
  PROVE  Assembled(p, st, Append(q, e))
<1> DEFINE r == Append(q, e)
<1>1. /\ \A i \in DOMAIN q : r[i] = q[i]
      /\ \A i \in DOMAIN r : i \in DOMAIN q \/ r[i] = e
  BY AppendFacts
<1> HIDE DEF r
<1>2. \A i \in DOMAIN r : r[i].type \in {"tool_call.start", "tool_call.delta"} =>
                            i \in DOMAIN q /\ r[i] = q[i]
  BY <1>1
<1>3. Assembled(p, st, r)
  BY <1>2 DEF Assembled
<1> QED
  BY <1>3 DEF r

\* The start of a call at a new index.
LEMMA StartKeeps ==
  ASSUME NEW p, NEW st \in StartedCalls, NEW q \in Seq(Events), Assembled(p, st, q),
         NEW k \in Nat, k \notin DOMAIN st, NEW c \in Calls
  PROVE  Assembled(p, WithCall(st, k, c), Append(q, OfCall("tool_call.start", k, c, c)))
<1> DEFINE e == OfCall("tool_call.start", k, c, c)
           r == Append(q, e)
           su == WithCall(st, k, c)
<1>1. /\ e \in Events /\ e.type = "tool_call.start" /\ e.index = k /\ e.told = c /\ e.of = c
  BY DEF OfCall, Events, ChunkTypes
<1>2. /\ DOMAIN su = DOMAIN st \cup {k} /\ su[k] = c
      /\ \A l \in DOMAIN st : l # k => su[l] = st[l]
  BY WithCallFacts, ZenonT(60)
<1> HIDE DEF e, su
<1>3. /\ \A i \in DOMAIN q : r[i] = q[i]
      /\ \A i \in DOMAIN r : i \in DOMAIN q \/ (i = Len(q) + 1 /\ r[i] = e)
      /\ DOMAIN q = 1 .. Len(q) /\ Len(q) \in Nat
  BY <1>1, AppendFacts
<1> HIDE DEF r
<1>4. ASSUME NEW i \in DOMAIN r, r[i].type = "tool_call.start"
      PROVE  r[i].index \in DOMAIN su /\ r[i].told = su[r[i].index]
  <2>1. CASE i \in DOMAIN q
    <3>1. r[i].index \in DOMAIN st /\ r[i].told = st[r[i].index]
      BY <1>3, <1>4, <2>1 DEF Assembled
    <3> QED
      BY <1>2, <3>1
  <2>2. CASE r[i] = e
    BY <1>1, <1>2, <2>2
  <2> QED
    BY <1>3, <2>1, <2>2
<1>5. ASSUME NEW i \in DOMAIN r, NEW j \in DOMAIN r,
             i < j, r[i].index = r[j].index, r[i].type = "tool_call.start",
             r[j].type \in {"tool_call.start", "tool_call.delta"}
      PROVE  /\ r[j].type = "tool_call.delta" /\ r[j].told = r[i].told
             /\ p = "openai" => r[j].told = r[j].of
  <2>1. i \in DOMAIN q
    BY <1>3, <1>5
  <2>2. r[i].index \in DOMAIN st
    BY <1>3, <1>5, <2>1 DEF Assembled
  <2>3. r[j] # e
    BY <1>1, <1>5, <2>2
  <2>4. j \in DOMAIN q
    BY <1>3, <2>3
  <2> QED
    BY <1>3, <1>5, <2>1, <2>4 DEF Assembled
<1>6. Assembled(p, su, r)
  BY <1>4, <1>5 DEF Assembled
<1> QED
  BY <1>6 DEF e, r, su

\* A fragment of the arguments of the call that is started at its index.
LEMMA DeltaKeeps ==
  ASSUME NEW p, NEW st \in StartedCalls, NEW q \in Seq(Events), Assembled(p, st, q),
         NEW k \in Nat, NEW told \in Calls \cup {NoCall}, NEW c \in Calls,
         k \in DOMAIN st => told = st[k] /\ (p = "openai" => told = c)
  PROVE  Assembled(p, st, Append(q, OfCall("tool_call.delta", k, told, c)))
<1> DEFINE e == OfCall("tool_call.delta", k, told, c)
           r == Append(q, e)
<1>1. /\ e \in Events /\ e.type = "tool_call.delta" /\ e.index = k /\ e.told = told /\ e.of = c
  BY DEF OfCall, Events, ChunkTypes
<1> HIDE DEF e
<1>2. /\ \A i \in DOMAIN q : r[i] = q[i]
      /\ \A i \in DOMAIN r : i \in DOMAIN q \/ (i = Len(q) + 1 /\ r[i] = e)
      /\ DOMAIN q = 1 .. Len(q) /\ Len(q) \in Nat
  BY <1>1, AppendFacts
<1> HIDE DEF r
<1>3. \A i \in DOMAIN r : r[i].type = "tool_call.start" => i \in DOMAIN q /\ r[i] = q[i]
  BY <1>1, <1>2
<1>4. \A i \in DOMAIN r : r[i].type = "tool_call.start" =>
         r[i].index \in DOMAIN st /\ r[i].told = st[r[i].index]
  BY <1>3 DEF Assembled
<1>5. ASSUME NEW i \in DOMAIN r, NEW j \in DOMAIN r,
             i < j, r[i].index = r[j].index, r[i].type = "tool_call.start",
             r[j].type \in {"tool_call.start", "tool_call.delta"}
      PROVE  /\ r[j].type = "tool_call.delta" /\ r[j].told = r[i].told
             /\ p = "openai" => r[j].told = r[j].of
  <2>1. CASE j \in DOMAIN q
    BY <1>2, <1>3, <1>5, <2>1 DEF Assembled
  <2>2. CASE r[j] = e
    BY <1>1, <1>4, <1>5, <2>2
  <2> QED
    BY <1>2, <2>1, <2>2
<1>6. Assembled(p, st, r)
  BY <1>4, <1>5 DEF Assembled
<1> QED
  BY <1>6 DEF e, r

\* Chunks put after chunks.
LEMMA ChunksAppended ==
  ASSUME NEW q \in Seq(Events), NEW c \in Seq(ChunkEvents)
  PROVE  /\ q \o c \in Seq(Events) /\ c \o << >> = c /\ << >> \o c = c
         /\ \A e \in ChunkEvents : /\ c \o << e >> \in Seq(ChunkEvents)
                                   /\ q \o (c \o << e >>) = Append(q \o c, e)
<1>1. \A e \in ChunkEvents : e \in Events
  BY DEF ChunkEvents
<1>2. c \in Seq(Events)
  BY <1>1
<1>3. q \o c \in Seq(Events) /\ c \o << >> = c /\ << >> \o c = c
  BY <1>2
<1>4. ASSUME NEW e \in ChunkEvents
      PROVE  c \o << e >> \in Seq(ChunkEvents) /\ q \o (c \o << e >>) = Append(q \o c, e)
  <2>1. c \o << e >> \in Seq(ChunkEvents)
    OBVIOUS
  <2>2. q \o (c \o << e >>) = Append(q \o c, e)
    <3>1. e \in Events
      BY <1>1
    <3> QED
      BY <1>2, <3>1
  <2> QED
    BY <2>1, <2>2
<1> QED
  BY <1>3, <1>4

\* One fragment of a call.
LEMMA FragmentTaken ==
  ASSUME NEW p, NEW q \in Seq(Events), NEW acc \in Accumulators(p, q), NEW f \in Fragments,
         p = "openai" => f \in OpenAIFragments
  PROVE  TakeFragment(acc, f) \in Accumulators(p, q)
<1> DEFINE st == acc.started
           c == acc.chunks
           k == Index(f)
           new == Starts(st, f)
           su == IF new THEN WithCall(st, k, f.of) ELSE st
           s == OfCall("tool_call.start", k, f.of, f.of)
           d == OfCall("tool_call.delta", k, Told(su, f), f.of)
           c1 == c \o (IF new THEN << s >> ELSE << >>)
           c2 == c1 \o (IF f.args THEN << d >> ELSE << >>)
<1>1. /\ st \in StartedCalls /\ c \in Seq(ChunkEvents)
      /\ Assembled(p, st, q \o c) /\ Numbered(p, st)
  BY DEF Accumulators
<1>2. k \in Nat /\ f.of \in Calls /\ f.args \in BOOLEAN
  BY FragmentFacts
<1>3. TakeFragment(acc, f) = [started |-> su, chunks |-> c2]
  BY DEF TakeFragment
<1> HIDE DEF st, c, k
<1>4. s \in ChunkEvents
  BY <1>2, OfCallFacts
<1>5. q \o c \in Seq(Events)
  BY <1>1, ChunksAppended
<1>6. /\ su \in StartedCalls /\ c1 \in Seq(ChunkEvents)
      /\ Assembled(p, su, q \o c1) /\ Numbered(p, su)
  <2>1. CASE new
    <3>1. k \notin DOMAIN st
      BY <2>1 DEF Starts, k
    <3>2. su = WithCall(st, k, f.of) /\ c1 = c \o << s >>
      BY <2>1
    <3>3. su \in StartedCalls
      BY <1>1, <1>2, <3>2, WithCallFacts
    <3>4. c1 \in Seq(ChunkEvents) /\ q \o c1 = Append(q \o c, s)
      BY <1>1, <1>4, <3>2, ChunksAppended
    <3>5. Assembled(p, su, q \o c1)
      BY <1>1, <1>2, <1>5, <3>1, <3>2, <3>4, StartKeeps
    <3>6. Numbered(p, su)
      <4> HIDE DEF su, c1, new, s, d, c2
      <4>1. SUFFICES ASSUME p = "openai", NEW g \in OpenAIFragments, Index(g) \in DOMAIN su
                     PROVE  su[Index(g)] = g.of
        BY DEF Numbered
      <4>2. DOMAIN su = DOMAIN st \cup {k} /\ su[k] = f.of
        <5>1. DOMAIN WithCall(st, k, f.of) = DOMAIN st \cup {k}
          BY DEF WithCall
        <5>2. WithCall(st, k, f.of)[k] = f.of
          BY DEF WithCall
        <5> QED
          BY <3>2, <5>1, <5>2
      <4>3. CASE Index(g) = k
        <5>1. g.of = f.of
          BY <4>1, <4>3, NumberedAssumption DEF k
        <5> QED
          BY <4>2, <4>3, <5>1
      <4>4. CASE Index(g) # k
        <5>1. Index(g) \in DOMAIN st
          BY <4>1, <4>2, <4>4
        <5>2. su[Index(g)] = st[Index(g)]
          BY <1>1, <1>2, <3>2, <4>4, <5>1, WithCallFacts
        <5> QED
          BY <1>1, <4>1, <5>1, <5>2 DEF Numbered
      <4> QED
        BY <4>3, <4>4
    <3> QED
      BY <3>3, <3>4, <3>5, <3>6
  <2>2. CASE ~new
    <3>1. su = st /\ c1 = c \o << >>
      BY <2>2
    <3>2. c1 = c
      BY <1>1, <3>1, ChunksAppended
    <3> QED
      BY <1>1, <3>1, <3>2
  <2> QED
    BY <2>1, <2>2
<1> HIDE DEF su, c1
<1>7. /\ Told(su, f) \in Calls \cup {NoCall}
      /\ k \in DOMAIN su => Told(su, f) = su[k] /\ (p = "openai" => Told(su, f) = f.of)
  <2>1. Told(su, f) = IF k \in DOMAIN su THEN su[k] ELSE NoCall
    BY DEF Told, k
  <2>2. k \in DOMAIN su => su[k] \in Calls
    BY <1>6 DEF StartedCalls
  <2>3. k \in DOMAIN su /\ p = "openai" => su[k] = f.of
    BY <1>6 DEF Numbered, k
  <2> QED
    BY <2>1, <2>2, <2>3
<1>8. c2 \in Seq(ChunkEvents) /\ Assembled(p, su, q \o c2)
  <2>1. CASE f.args
    <3>1. c2 = c1 \o << d >>
      BY <2>1
    <3>2. d \in ChunkEvents
      BY <1>2, <1>7, OfCallFacts
    <3>3. c2 \in Seq(ChunkEvents) /\ q \o c2 = Append(q \o c1, d) /\ q \o c1 \in Seq(Events)
      BY <1>6, <3>1, <3>2, ChunksAppended
    <3> DEFINE told == Told(su, f)
    <3>4. Assembled(p, su, Append(q \o c1, OfCall("tool_call.delta", k, told, f.of)))
      <4> HIDE DEF told, c2, d
      <4>1. told \in Calls \cup {NoCall}
            /\ (k \in DOMAIN su => told = su[k] /\ (p = "openai" => told = f.of))
        BY <1>7 DEF told
      <4> QED
        BY <1>2, <1>6, <3>3, <4>1, DeltaKeeps
    <3> QED
      BY <3>3, <3>4
  <2>2. CASE ~f.args
    <3>1. c2 = c1 \o << >>
      BY <2>2
    <3>2. c2 = c1
      BY <1>6, <3>1, ChunksAppended
    <3> QED
      BY <1>6, <3>2
  <2> QED
    BY <1>2, <2>1, <2>2
<1> HIDE DEF c2, d, s, new
<1> QED
  BY <1>3, <1>6, <1>8 DEF Accumulators

\* Chunks are added, what is started stays.
LEMMA ChunksTaken ==
  ASSUME NEW st, NEW c, NEW more
  PROVE  TakeChunks([started |-> st, chunks |-> c], more) = [started |-> st, chunks |-> c \o more]
BY DEF TakeChunks

\* A chunk of no call, or none.
LEMMA PlainTaken ==
  ASSUME NEW p, NEW q \in Seq(Events), NEW acc \in Accumulators(p, q), NEW condition \in BOOLEAN,
         NEW type \in ChunkTypes \ {"tool_call.start", "tool_call.delta"}
  PROVE  TakeChunks(acc, ChunkIf(condition, type)) \in Accumulators(p, q)
<1> DEFINE c == acc.chunks
           c1 == c \o ChunkIf(condition, type)
<1>1. /\ acc \in [started : StartedCalls, chunks : Seq(ChunkEvents)]
      /\ acc.started \in StartedCalls /\ c \in Seq(ChunkEvents)
      /\ Assembled(p, acc.started, q \o c) /\ Numbered(p, acc.started)
  BY DEF Accumulators
<1>2. TakeChunks(acc, ChunkIf(condition, type)) = [started |-> acc.started, chunks |-> c1]
  <2>1. acc = [started |-> acc.started, chunks |-> acc.chunks]
    BY <1>1
  <2> QED
    BY <2>1, ChunksTaken
<1> HIDE DEF c
<1>3. c1 \in Seq(ChunkEvents) /\ Assembled(p, acc.started, q \o c1)
  <2>1. CASE condition
    <3>1. c1 = c \o << Chunk(type) >>
      BY <2>1 DEF ChunkIf
    <3>2. /\ Chunk(type) \in ChunkEvents /\ Chunk(type) \in Events
          /\ Chunk(type).type \notin {"tool_call.start", "tool_call.delta"}
      BY ChunkFacts
    <3>3. c1 \in Seq(ChunkEvents) /\ q \o c1 = Append(q \o c, Chunk(type)) /\ q \o c \in Seq(Events)
      BY <1>1, <3>1, <3>2, ChunksAppended
    <3> HIDE DEF c1
    <3>4. Assembled(p, acc.started, Append(q \o c, Chunk(type)))
      BY <1>1, <3>2, <3>3, PlainKeeps
    <3> QED
      BY <3>3, <3>4
  <2>2. CASE ~condition
    <3>1. c1 = c \o << >>
      BY <2>2 DEF ChunkIf
    <3>2. c1 = c
      BY <1>1, <3>1, ChunksAppended
    <3> QED
      BY <1>1, <3>2
  <2> QED
    BY <2>1, <2>2
<1> HIDE DEF c1
<1> QED
  BY <1>1, <1>2, <1>3 DEF Accumulators

\* A part of a candidate of Gemini.
LEMMA PartTaken ==
  ASSUME NEW p, p # "openai", NEW q \in Seq(Events), NEW acc \in Accumulators(p, q),
         NEW part \in Parts
  PROVE  TakePart(acc, part) \in Accumulators(p, q)
<1>1. part.text \in BOOLEAN /\ part.calls \in Seq(Fragments)
  BY DEF Parts
<1> DEFINE opened == TakeChunks(acc, ChunkIf(part.text, "content.delta"))
           A == Accumulators(p, q)
<1>2. opened \in A
  BY <1>1, PlainTaken DEF ChunkTypes
<1>3. \A a \in A, f \in Fragments : TakeFragment(a, f) \in A
  BY FragmentTaken
<1> HIDE DEF opened, A
<1>4. TakeFragments(opened, part.calls) \in A
  BY <1>1, <1>2, <1>3, FragmentsKeep
<1> QED
  BY <1>4 DEF TakePart, opened, A

\* What is yielded before the calls of an event.
LEMMA OpenedFacts ==
  ASSUME NEW p, NEW q \in Seq(Events), NEW st \in StartedCalls, Assembled(p, st, q),
         Numbered(p, st), NEW r \in BOOLEAN, NEW t \in BOOLEAN
  PROVE  [started |-> st, chunks |-> ChunkIf(r, "role") \o ChunkIf(t, "content.delta")]
           \in Accumulators(p, q)
<1> DEFINE none == [started |-> st, chunks |-> << >>]
           one == TakeChunks(none, ChunkIf(r, "role"))
           two == TakeChunks(one, ChunkIf(t, "content.delta"))
<1>1. none \in Accumulators(p, q)
  <2>1. q \o << >> = q /\ << >> \in Seq(ChunkEvents)
    OBVIOUS
  <2> QED
    BY <2>1 DEF Accumulators
<1>2. one \in Accumulators(p, q)
  <2> HIDE DEF none
  <2> QED
    BY <1>1, PlainTaken DEF ChunkTypes
<1>3. two \in Accumulators(p, q)
  <2> HIDE DEF one
  <2> QED
    BY <1>2, PlainTaken DEF ChunkTypes
<1>4. ChunkIf(r, "role") \in Seq(ChunkEvents)
  <2>1. Chunk("role") \in ChunkEvents
    BY ChunkFacts DEF ChunkTypes
  <2> QED
    BY <2>1 DEF ChunkIf
<1>5. << >> \o ChunkIf(r, "role") = ChunkIf(r, "role")
  BY <1>4
<1>6. one = [started |-> st, chunks |-> ChunkIf(r, "role")]
  BY <1>5, ChunksTaken
<1>7. two = [started |-> st, chunks |-> ChunkIf(r, "role") \o ChunkIf(t, "content.delta")]
  BY <1>6, ChunksTaken
<1> QED
  BY <1>3, <1>7

\* An event of OpenAI.
LEMMA OpenAIRead ==
  ASSUME NEW q \in Seq(Events), NEW st \in StartedCalls,
         Assembled("openai", st, q), Numbered("openai", st), NEW ev \in OpenAIEvents
  PROVE  OpenAIStream(st, ev) \in Accumulators("openai", q)
<1> DEFINE A == Accumulators("openai", q)
           opened == [started |-> st,
                      chunks |-> ChunkIf(ev.role, "role") \o ChunkIf(ev.text, "content.delta")]
           bare == ~ev.role /\ ~ev.text /\ ev.calls = << >>
           bareEnd == [started |-> st, chunks |-> ChunkIf(ev.finish, "message.end")]
           read == TakeFragments(opened, ev.calls)
<1>1. /\ ev.role \in BOOLEAN /\ ev.text \in BOOLEAN /\ ev.finish \in BOOLEAN
      /\ ev.calls \in Seq(Fragments)
  BY EventsAssumption
<1>2. opened \in A
  BY <1>1, OpenedFacts
<1>3. ev.calls \in Seq(OpenAIFragments) /\ \A f \in OpenAIFragments : f \in Fragments
  <2>1. Range(ev.calls) \subseteq OpenAIFragments
    BY DEF OpenAIFragments
  <2>2. ev.calls \in Seq(OpenAIFragments)
    BY <1>1, <2>1 DEF Range
  <2>3. ASSUME NEW f \in OpenAIFragments PROVE f \in Fragments
    <3>1. PICK other \in OpenAIEvents : f \in Range(other.calls)
      BY <2>3 DEF OpenAIFragments
    <3>2. other.calls \in Seq(Fragments)
      BY EventsAssumption
    <3> QED
      BY <3>1, <3>2 DEF Range
  <2> QED
    BY <2>2, <2>3
<1>4. \A a \in A, f \in OpenAIFragments : TakeFragment(a, f) \in A
  BY <1>3, FragmentTaken
<1>5. read \in A
  <2> HIDE DEF opened, A
  <2> QED
    BY <1>2, <1>3, <1>4, FragmentsKeep
<1>6. TakeChunks(read, ChunkIf(ev.finish /\ bare, "message.end")) \in A
  <2>1. (ev.finish /\ bare) \in BOOLEAN
    BY <1>1
  <2> HIDE DEF read, bare
  <2> QED
    BY <1>5, <2>1, PlainTaken DEF ChunkTypes
<1>7. bareEnd \in A
  <2> DEFINE none == [started |-> st, chunks |-> << >>]
  <2>1. none \in A
    <3>1. q \o << >> = q /\ << >> \in Seq(ChunkEvents)
      OBVIOUS
    <3> QED
      BY <3>1 DEF Accumulators
  <2>2. TakeChunks(none, ChunkIf(ev.finish, "message.end")) \in A
    <3> HIDE DEF none
    <3> QED
      BY <1>1, <2>1, PlainTaken DEF ChunkTypes
  <2>3. << >> \o ChunkIf(ev.finish, "message.end") = ChunkIf(ev.finish, "message.end")
    <3>1. Chunk("message.end") \in ChunkEvents
      BY ChunkFacts DEF ChunkTypes
    <3>2. ChunkIf(ev.finish, "message.end") \in Seq(ChunkEvents)
      BY <3>1 DEF ChunkIf
    <3> QED
      BY <3>2
  <2>4. TakeChunks(none, ChunkIf(ev.finish, "message.end")) = bareEnd
    BY <2>3, ChunksTaken
  <2> QED
    BY <2>2, <2>4
<1>8. OpenAIStream(st, ev) = IF ~ev.delta THEN bareEnd
                             ELSE TakeChunks(read, ChunkIf(ev.finish /\ bare, "message.end"))
  BY DEF OpenAIStream
<1> HIDE DEF bareEnd, read, bare
<1> QED
  BY <1>6, <1>7, <1>8

\* An event of Gemini.
LEMMA GeminiRead ==
  ASSUME NEW p, p # "openai", NEW q \in Seq(Events), NEW st \in StartedCalls,
         Assembled(p, st, q), NEW ev \in GeminiEvents
  PROVE  GeminiStream(st, ev) \in Accumulators(p, q)
<1> DEFINE A == Accumulators(p, q)
           opened == [started |-> st,
                      chunks |-> ChunkIf(ev.role, "role") \o ChunkIf(ev.text, "content.delta")]
           read == TakeFragments(opened, ev.calls)
           outer == TakeChunks(read, ChunkIf(ev.inner /\ ~ev.role, "role"))
           all == TakeParts(outer, ev.parts)
<1>1. /\ ev.role \in BOOLEAN /\ ev.text \in BOOLEAN /\ ev.finish \in BOOLEAN
      /\ (ev.inner /\ ~ev.role) \in BOOLEAN
      /\ ev.calls \in Seq(Fragments) /\ ev.parts \in Seq(Parts)
  BY EventsAssumption
<1>2. opened \in A
  BY <1>1, OpenedFacts DEF Numbered
<1>3. \A a \in A, f \in Fragments : TakeFragment(a, f) \in A
  BY FragmentTaken
<1>4. read \in A
  <2> HIDE DEF opened, A
  <2> QED
    BY <1>1, <1>2, <1>3, FragmentsKeep
<1>5. outer \in A
  <2> HIDE DEF read
  <2> QED
    BY <1>1, <1>4, PlainTaken DEF ChunkTypes
<1>6. \A a \in A, part \in Parts : TakePart(a, part) \in A
  BY PartTaken
<1>7. all \in A
  <2> HIDE DEF outer, A
  <2> QED
    BY <1>1, <1>5, <1>6, PartsKeep
<1>8. TakeChunks(all, ChunkIf(ev.finish, "message.end")) \in A
  <2> HIDE DEF all
  <2> QED
    BY <1>1, <1>7, PlainTaken DEF ChunkTypes
<1> QED
  BY <1>8 DEF GeminiStream

-----------------------------------------------------------------------------
\* Sequences that say nothing of calls fit every set of them.
LEMMA PlainAssembled ==
  ASSUME NEW p, NEW st, NEW q \in Seq(Events),
         \A i \in DOMAIN q : q[i].type \notin {"tool_call.start", "tool_call.delta"}
  PROVE  Assembled(p, st, q)
BY DEF Assembled

\* What fits the calls does so from its first chunk on.
LEMMA PrefixAssembled ==
  ASSUME NEW p, NEW st, NEW q \in Seq(Events), NEW c \in Seq(ChunkEvents), Assembled(p, st, q \o c)
  PROVE  Assembled(p, st, q)
<1> DEFINE r == q \o c
<1>1. \A i \in DOMAIN q : i \in DOMAIN r /\ r[i] = q[i]
  <2>1. c \in Seq(Events)
    BY DEF ChunkEvents
  <2> QED
    BY <2>1
<1>2. Assembled(p, st, r)
  OBVIOUS
<1> HIDE DEF r
<1> QED
  BY <1>1, <1>2 DEF Assembled

\* Passing a chunk on takes it from what is yet to be sent.
LEMMA ChunkMoved ==
  ASSUME NEW q \in Seq(Events), NEW c \in Seq(ChunkEvents), c # << >>
  PROVE  /\ Head(c) \in ChunkEvents /\ Head(c) \in Events /\ Tail(c) \in Seq(ChunkEvents)
         /\ Head(c) = c[1] /\ 1 \in DOMAIN c
         /\ \A i \in DOMAIN Tail(c) : Tail(c)[i] = c[i + 1] /\ i + 1 \in DOMAIN c
         /\ \A i \in DOMAIN c : i = 1 \/ (i - 1 \in DOMAIN Tail(c) /\ Tail(c)[i - 1] = c[i])
         /\ Append(q, Head(c)) \o Tail(c) = q \o c
<1>1. \A e \in ChunkEvents : e \in Events
  BY DEF ChunkEvents
<1>2. Head(c) \in ChunkEvents /\ Tail(c) \in Seq(ChunkEvents) /\ c[1] = Head(c) /\ Len(c) \in Nat \ {0}
  OBVIOUS
<1>3. Append(q, Head(c)) \o Tail(c) = q \o c
  <2>1. Head(c) \in Events /\ c \in Seq(Events) /\ Tail(c) \in Seq(Events)
    BY <1>1, <1>2
  <2> QED
    BY <2>1
<1> QED
  BY <1>1, <1>2, <1>3

\* Where the events of a type are, before and after one more is sent.
LEMMA SentGrows ==
  ASSUME sent \in Seq(Events), NEW e \in Events, sent' = Append(sent, e)
  PROVE  /\ \A type : Sent(type)' = IF e.type = type THEN Sent(type) \cup {Len(sent) + 1}
                                                     ELSE Sent(type)
         /\ \A type : Sent(type) \in SUBSET (1 .. Len(sent)) /\ IsFiniteSet(Sent(type))
         /\ Len(sent) \in Nat /\ Len(sent') = Len(sent) + 1 /\ sent' \in Seq(Events)
<1>1. /\ Len(sent) \in Nat /\ Len(sent') = Len(sent) + 1 /\ sent' \in Seq(Events)
      /\ DOMAIN sent = 1 .. Len(sent) /\ DOMAIN sent' = 1 .. Len(sent) + 1
      /\ sent'[Len(sent) + 1] = e /\ \A i \in DOMAIN sent : sent'[i] = sent[i]
  BY AppendFacts
<1>2. ASSUME NEW type
      PROVE  Sent(type)' = IF e.type = type THEN Sent(type) \cup {Len(sent) + 1} ELSE Sent(type)
  <2>1. Sent(type)' = {i \in DOMAIN sent' : sent'[i].type = type}
    BY DEF Sent
  <2>2. Sent(type) = {i \in DOMAIN sent : sent[i].type = type}
    BY DEF Sent
  <2>3. \A i \in DOMAIN sent' : i \in DOMAIN sent \/ i = Len(sent) + 1
    BY <1>1
  <2>4. DOMAIN sent \subseteq DOMAIN sent' /\ Len(sent) + 1 \in DOMAIN sent'
    BY <1>1
  <2> QED
    BY <1>1, <2>1, <2>2, <2>3, <2>4
<1>3. ASSUME NEW type
      PROVE  Sent(type) \in SUBSET (1 .. Len(sent)) /\ IsFiniteSet(Sent(type))
  <2>1. Sent(type) \in SUBSET (1 .. Len(sent))
    BY <1>1 DEF Sent
  <2>2. IsFiniteSet(1 .. Len(sent))
    BY <1>1, FS_Interval
  <2> QED
    BY <2>1, <2>2, FS_Subset
<1> QED
  BY <1>1, <1>2, <1>3

\* What was sent stays where it is.
LEMMA SentKept == sent' = sent => \A type : Sent(type)' = Sent(type)
BY DEF Sent

\* The three chunks of a refusal, and the two of an answer without text.
LEMMA ScriptFacts ==
  /\ RefusalScript \in Seq(ChunkEvents) /\ Len(RefusalScript) = 3
  /\ RefusalScript[1].type = "role" /\ RefusalScript[2].type = "content.delta"
  /\ RefusalScript[3].type = "message.end"
  /\ << Chunk("role"), Chunk("message.end") >> \in Seq(ChunkEvents)
  /\ Chunk("role").type = "role" /\ Chunk("message.end").type = "message.end"
<1>1. /\ Chunk("role") \in ChunkEvents /\ Chunk("content.delta") \in ChunkEvents
      /\ Chunk("message.end") \in ChunkEvents /\ Chunk("role").type = "role"
      /\ Chunk("content.delta").type = "content.delta"
      /\ Chunk("message.end").type = "message.end"
  BY ChunkFacts DEF ChunkTypes
<1> QED
  BY <1>1 DEF RefusalScript

LEMMA StreamInitHolds == StreamInit => StreamInv
<1> SUFFICES ASSUME StreamInit PROVE StreamInv
  OBVIOUS
<1>1. \A type : Sent(type) = {}
  BY DEF StreamInit, Sent
<1>2. StreamTypes
  <2>1. script \in Seq(ChunkEvents)
    BY ScriptFacts DEF StreamInit
  <2>2. maxAttempts \in Int
    BY RepairsAssumption DEF StreamInit, StructuredInit
  <2> QED
    BY <2>1, <2>2 DEF StreamInit, StructuredInit, StreamTypes
<1>3. started \in StartedCalls /\ DOMAIN started = {}
  <2>1. started \in [{} -> Calls]
    BY DEF StreamInit
  <2> QED
    BY <2>1 DEF StartedCalls
<1>4. RepairInv
  BY DEF StreamInit, StructuredInit, RepairInv
<1>5. TurnInv
  BY <1>1 DEF StreamInit, StructuredInit, TurnInv
<1>6. YieldInv
  BY <1>1 DEF StreamInit, YieldInv
<1>7. FrameInv
  BY <1>1 DEF StreamInit, FrameInv
<1>8. SinkInv
  BY <1>1, FS_EmptySet DEF StreamInit, SinkInv
<1>9. CallsInv
  <2>1. Numbered(path, started)
    BY <1>3 DEF Numbered
  <2>2. Assembled(path, started, sent)
    BY DEF StreamInit, Assembled
  <2>3. Assembled(path, started, sent \o script)
    <3>1. sent \o script = script /\ script \in Seq(Events)
      <4>1. script \in Seq(Events)
        BY <1>2 DEF StreamTypes, ChunkEvents
      <4> QED
        BY <4>1 DEF StreamInit
    <3>2. \A i \in DOMAIN script : script[i].type \notin {"tool_call.start", "tool_call.delta"}
      <4>1. \A i \in 1 .. 3 : i = 1 \/ i = 2 \/ i = 3
        OBVIOUS
      <4> QED
        BY <4>1, ScriptFacts DEF StreamInit
    <3> QED
      BY <3>1, <3>2, PlainAssembled
  <2> QED
    BY <2>1, <2>2, <2>3 DEF CallsInv
<1> QED
  BY <1>2, <1>3, <1>4, <1>5, <1>6, <1>7, <1>8, <1>9 DEF StreamInv

-----------------------------------------------------------------------------
\* One attempt of the repair loop, or its fallback.
LEMMA EnsureKeeps ==
  ASSUME StreamTypes, RepairInv, EnsureStructuredOutput
  PROVE  /\ attempts' \in Nat /\ instructions' \in Seq(Outputs) /\ answer = "none"
         /\ answer' \in {"none", "json", "text", "refused", "raised", "empty"}
         /\ RepairInv' /\ UNCHANGED policyVars
<1>1. /\ attempts \in Nat /\ maxAttempts \in Int /\ instructions \in Seq(Outputs)
      /\ Len(instructions) \in Nat
  BY DEF StreamTypes
<1>2. CASE Fallback
  BY <1>1, <1>2 DEF Fallback, RepairInv, policyVars
<1>3. CASE Attempt
  <2>1. /\ answer = "none" /\ attempts < maxAttempts /\ attempts' = attempts + 1
        /\ policy' = policy /\ maxAttempts' = maxAttempts /\ UNCHANGED policyVars
        /\ Len(instructions) = attempts
    BY <1>3 DEF Attempt, policyVars, RepairInv
  <2>2. CASE answer' \in {"json", "raised"} /\ instructions' = instructions
    BY <1>1, <2>1, <2>2 DEF RepairInv
  <2>3. CASE /\ answer' = "text" /\ instructions' = instructions
             /\ policy = "Ignore" \/ (attempts' >= maxAttempts /\ policy # "Refuse")
    BY <1>1, <2>1, <2>3 DEF RepairInv
  <2>4. CASE /\ answer' = "refused" /\ instructions' = instructions /\ attempts' >= maxAttempts
    BY <1>1, <2>1, <2>4 DEF RepairInv
  <2>5. CASE \E out \in Outputs : /\ answer' = answer /\ instructions' = Append(instructions, out)
                                  /\ ~(attempts' >= maxAttempts)
    <3>1. PICK out \in Outputs : /\ answer' = answer /\ instructions' = Append(instructions, out)
                                 /\ ~(attempts' >= maxAttempts)
      BY <2>5
    <3>2. instructions' \in Seq(Outputs) /\ Len(instructions') = Len(instructions) + 1
      BY <1>1, <3>1
    <3> QED
      BY <1>1, <2>1, <3>1, <3>2 DEF RepairInv
  <2> QED
    BY <1>3, <2>1, <2>2, <2>3, <2>4, <2>5 DEF Attempt, Violation, OutOfAttempts
<1> QED
  BY <1>2, <1>3 DEF EnsureStructuredOutput

\* A step that leaves what was sent, recorded and remembered alone.
LEMMA QuietKeeps ==
  ASSUME StreamInv, UNCHANGED << structuredVars, path, started, sent, turns, sink >>
  PROVE  /\ RepairInv' /\ SinkInv' /\ started' \in StartedCalls
         /\ Numbered(path, started)' /\ Assembled(path, started, sent)'
         /\ \A type : Sent(type)' = Sent(type)
<1>1. \A type : Sent(type)' = Sent(type)
  BY SentKept
<1>2. RepairInv'
  BY DEF StreamInv, RepairInv, structuredVars, policyVars, loopVars
<1>3. SinkInv'
  BY <1>1 DEF StreamInv, SinkInv
<1>4. Numbered(path, started)' /\ Assembled(path, started, sent)'
  BY DEF StreamInv, CallsInv, Numbered, Assembled
<1> QED
  BY <1>1, <1>2, <1>3, <1>4 DEF StreamInv

LEMMA AskKeeps == StreamInv /\ Ask => StreamInv'
<1> SUFFICES ASSUME StreamInv, Ask PROVE StreamInv'
  OBVIOUS
<1>1. /\ pc = "ask" /\ path = "structured" /\ sent = << >> /\ script = << >>
      /\ UNCHANGED << path, manual, started, sent, turns, sink, here >> /\ turns = 0
  BY DEF StreamInv, StreamTypes, TurnInv, Ask
<1>2. /\ attempts' \in Nat /\ instructions' \in Seq(Outputs)
      /\ answer' \in {"none", "json", "text", "refused", "raised", "empty"}
      /\ RepairInv' /\ policy' = policy /\ maxAttempts' = maxAttempts /\ answer = "none"
  BY EnsureKeeps DEF StreamInv, Ask, policyVars
<1>3. /\ \A type : Sent(type)' = Sent(type)
      /\ \A type : Sent(type) = {}
  BY <1>1, SentKept DEF Sent
<1>4. \/ answer' = "none" /\ pc' = "ask" /\ script' = << >>
      \/ answer' \in {"refused", "raised"} /\ pc' = "error" /\ script' = << >>
      \/ answer' \in {"json", "text"} /\ pc' = "script" /\ script' = RefusalScript
      \/ /\ answer' \in {"text", "empty"} /\ pc' = "script"
         /\ script' = << Chunk("role"), Chunk("message.end") >>
  BY <1>1 DEF Ask
<1>5. script' \in Seq(ChunkEvents) /\ script' \in Seq(Events)
  <2>1. script' \in Seq(ChunkEvents)
    <3>1. \/ script' = << >> \/ script' = RefusalScript
          \/ script' = << Chunk("role"), Chunk("message.end") >>
      BY <1>4, Zenon
    <3>2. CASE script' = << >>
      BY <3>2
    <3>3. CASE script' = RefusalScript
      BY <3>3, ScriptFacts, Zenon
    <3>4. CASE script' = << Chunk("role"), Chunk("message.end") >>
      BY <3>4, ScriptFacts, Zenon
    <3> QED
      BY <3>1, <3>2, <3>3, <3>4
  <2> QED
    BY <2>1 DEF ChunkEvents
<1>6. /\ \A i \in DOMAIN script' : script'[i].type \in {"role", "content.delta", "message.end"}
      /\ \A i \in DOMAIN script' : script'[i].type = "role" => answer' \in {"json", "text", "empty"}
      /\ \A i \in DOMAIN script' : script'[i].type = "content.delta" => answer' \in {"json", "text"}
      /\ pc' = "script" => \E i \in DOMAIN script' : script'[i].type = "message.end"
  <2>1. CASE script' = << >>
    BY <1>4, <2>1, ScriptFacts, SMTT(60)
  <2>2. CASE script' = RefusalScript /\ answer' \in {"json", "text"}
    <3>1. DOMAIN script' = 1 .. 3
      BY <1>5, <2>2, ScriptFacts
    <3>2. \A i \in 1 .. 3 : i = 1 \/ i = 2 \/ i = 3
      OBVIOUS
    <3> QED
      BY <2>2, <3>1, <3>2, ScriptFacts
  <2>3. CASE /\ script' = << Chunk("role"), Chunk("message.end") >>
             /\ answer' \in {"text", "empty"}
    <3>1. DOMAIN script' = 1 .. 2 /\ script'[1] = Chunk("role") /\ script'[2] = Chunk("message.end")
      BY <2>3
    <3>2. \A i \in 1 .. 2 : i = 1 \/ i = 2
      OBVIOUS
    <3> QED
      BY <2>3, <3>1, <3>2, ScriptFacts
  <2> QED
    BY <1>4, <2>1, <2>2, <2>3
<1>7. StreamTypes'
  BY <1>1, <1>2, <1>4, <1>5 DEF StreamInv, StreamTypes
<1>8. TurnInv'
  BY <1>1, <1>3, <1>4 DEF TurnInv
<1>9. YieldInv'
  BY <1>1, <1>3, <1>6 DEF YieldInv
<1>10. FrameInv'
  BY <1>1, <1>3, <1>4 DEF FrameInv
<1>11. SinkInv'
  BY <1>1, <1>3 DEF StreamInv, SinkInv
<1>12. CallsInv'
  <2>1. sent' \o script' = script'
    BY <1>1, <1>5
  <2>2. Assembled(path', started', script')
    BY <1>5, <1>6, PlainAssembled
  <2>3. Numbered(path', started') /\ Assembled(path', started', sent')
    BY <1>1 DEF StreamInv, CallsInv
  <2> QED
    BY <2>1, <2>2, <2>3 DEF CallsInv
<1> QED
  BY <1>1, <1>2, <1>7, <1>8, <1>9, <1>10, <1>11, <1>12 DEF StreamInv

LEMMA YieldKeeps == StreamInv /\ YieldNextChunk => StreamInv'
<1> SUFFICES ASSUME StreamInv, YieldNextChunk PROVE StreamInv'
  OBVIOUS
<1> DEFINE c == Head(script)
<1>1. /\ pc \in {"script", "chunks"} /\ script # << >> /\ turns = 0
      /\ sent' = Append(sent, c) /\ script' = Tail(script)
      /\ pc' = pc \/ (pc' = "end" /\ ~here)
      /\ UNCHANGED << policy, hasSchema, maxAttempts, attempts, instructions, answer >>
      /\ UNCHANGED << path, manual, started, turns, here >>
  BY DEF StreamInv, StreamTypes, TurnInv, YieldNextChunk, Send, After,
         structuredVars, policyVars, loopVars
<1>2. sink' = IF c.type = "message.end" /\ EmitUsage THEN Append(sink, turns) ELSE sink
  BY DEF YieldNextChunk, Send
<1>3. script \in Seq(ChunkEvents) /\ sent \in Seq(Events) /\ sink \in Seq({0})
  BY DEF StreamInv, StreamTypes
<1>4. /\ c \in ChunkEvents /\ c \in Events /\ script' \in Seq(ChunkEvents)
      /\ c = script[1] /\ 1 \in DOMAIN script
      /\ \A i \in DOMAIN script' : script'[i] = script[i + 1] /\ i + 1 \in DOMAIN script
      /\ \A i \in DOMAIN script : i = 1 \/ (i - 1 \in DOMAIN script' /\ script'[i - 1] = script[i])
      /\ sent' \o script' = sent \o script
  BY <1>1, <1>3, ChunkMoved
<1> HIDE DEF c
<1>5. /\ \A type : Sent(type)' = IF c.type = type THEN Sent(type) \cup {Len(sent) + 1}
                                                  ELSE Sent(type)
      /\ \A type : Sent(type) \in SUBSET (1 .. Len(sent)) /\ IsFiniteSet(Sent(type))
      /\ Len(sent) \in Nat /\ Len(sent') = Len(sent) + 1 /\ sent' \in Seq(Events)
  BY <1>1, <1>3, <1>4, SentGrows
<1>6. c.type \in ChunkTypes /\ c.type # "error" /\ c.type # "end"
  BY <1>4 DEF ChunkEvents, ChunkTypes
<1>7. Sent("error") = {} /\ Sent("end") = {} /\ Sent("error")' = {} /\ Sent("end")' = {}
  <2>1. Sent("error") = {} /\ Sent("end") = {}
    BY <1>1 DEF StreamInv, FrameInv
  <2>2. Sent("error")' = Sent("error") /\ Sent("end")' = Sent("end")
    BY <1>5, <1>6
  <2> QED
    BY <2>1, <2>2
<1>8. StreamTypes'
  <2>1. sink' \in Seq({0})
    BY <1>1, <1>2, <1>3
  <2>2. pc' \in {"script", "chunks", "end"}
    BY <1>1
  <2> QED
    BY <1>1, <1>4, <1>5, <2>1, <2>2 DEF StreamInv, StreamTypes
<1>9. RepairInv'
  BY <1>1 DEF StreamInv, RepairInv
<1>10. TurnInv'
  BY <1>1 DEF StreamInv, TurnInv
<1>11. YieldInv'
  <2>1. SUFFICES ASSUME path' = "structured"
                 PROVE  YieldInv'
    BY DEF YieldInv
  <2>2. path = "structured"
    BY <1>1, <2>1
  <2>3. /\ \A i \in DOMAIN sent' : i \in DOMAIN sent \/ i = Len(sent) + 1
        /\ \A i \in DOMAIN sent : sent'[i] = sent[i]
        /\ sent'[Len(sent) + 1] = c
    BY <1>1, <1>3, <1>4, AppendFacts
  <2>4. \A i \in DOMAIN sent' : sent'[i].type = "role" => answer' \in {"json", "text", "empty"}
    BY <1>1, <1>4, <2>2, <2>3 DEF StreamInv, YieldInv
  <2>5. \A i \in DOMAIN sent' : sent'[i].type = "content.delta" => answer' \in {"json", "text"}
    BY <1>1, <1>4, <2>2, <2>3 DEF StreamInv, YieldInv
  <2>6. /\ \A i \in DOMAIN script' : script'[i].type = "role" => answer' \in {"json", "text", "empty"}
        /\ \A i \in DOMAIN script' : script'[i].type = "content.delta" => answer' \in {"json", "text"}
    BY <1>1, <1>4, <2>2 DEF StreamInv, YieldInv
  <2>7. pc' = "script" => \/ Sent("message.end")' # {}
                          \/ \E i \in DOMAIN script' : script'[i].type = "message.end"
    <3>1. SUFFICES ASSUME pc' = "script", Sent("message.end")' = {}
                   PROVE  \E i \in DOMAIN script' : script'[i].type = "message.end"
      OBVIOUS
    <3>2. c.type # "message.end" /\ Sent("message.end") = {}
      BY <1>5, <3>1
    <3>3. pc = "script"
      BY <1>1, <3>1
    <3>4. PICK i \in DOMAIN script : script[i].type = "message.end"
      BY <2>2, <3>2, <3>3 DEF StreamInv, YieldInv
    <3>5. i # 1
      BY <1>4, <3>2, <3>4
    <3> QED
      BY <1>4, <3>4, <3>5
  <2> QED
    BY <1>7, <2>4, <2>5, <2>6, <2>7 DEF YieldInv
<1>12. FrameInv'
  BY <1>1, <1>7 DEF FrameInv
<1>13. SinkInv'
  <2>1. CASE c.type = "message.end" /\ EmitUsage
    <3>1. Sent("message.end")' = Sent("message.end") \cup {Len(sent) + 1}
      BY <1>5, <2>1
    <3>2. Len(sent) + 1 \notin Sent("message.end") /\ IsFiniteSet(Sent("message.end"))
      <4>1. Sent("message.end") \in SUBSET (1 .. Len(sent)) /\ IsFiniteSet(Sent("message.end"))
        BY <1>5
      <4> QED
        BY <1>5, <4>1
    <3>3. Cardinality(Sent("message.end")') = Cardinality(Sent("message.end")) + 1
      BY <3>1, <3>2, FS_AddElement
    <3>4. Len(sink') = Len(sink) + 1
      BY <1>1, <1>2, <1>3, <2>1
    <3> QED
      BY <2>1, <3>3, <3>4 DEF StreamInv, SinkInv
  <2>2. CASE ~EmitUsage
    BY <1>2, <2>2 DEF StreamInv, SinkInv
  <2>3. CASE c.type # "message.end"
    <3>1. Sent("message.end")' = Sent("message.end")
      BY <1>5, <2>3
    <3> QED
      BY <1>2, <2>3, <3>1 DEF StreamInv, SinkInv
  <2> QED
    BY <2>1, <2>2, <2>3
<1>14. CallsInv'
  <2>1. Assembled(path, started, sent' \o script')
    BY <1>1, <1>4 DEF StreamInv, CallsInv
  <2>2. Assembled(path, started, sent')
    BY <1>4, <1>5, <2>1, PrefixAssembled
  <2> QED
    BY <1>1, <2>1, <2>2 DEF StreamInv, CallsInv
<1> QED
  BY <1>1, <1>8, <1>9, <1>10, <1>11, <1>12, <1>13, <1>14 DEF StreamInv

LEMMA NextEventKeeps == StreamInv /\ NextEvent => StreamInv'
<1> SUFFICES ASSUME StreamInv, NextEvent PROVE StreamInv'
  OBVIOUS
<1>1. /\ pc = "chunks" /\ script = << >> /\ path \in {"openai", "gemini"} /\ turns = 0
      /\ UNCHANGED << policy, hasSchema, maxAttempts, attempts, instructions, answer >>
      /\ UNCHANGED << path, manual, pc, sent, turns, sink, here >>
  BY DEF StreamInv, StreamTypes, TurnInv, NextEvent, structuredVars, policyVars, loopVars
<1>2. /\ sent \in Seq(Events) /\ started \in StartedCalls
      /\ Assembled(path, started, sent) /\ Numbered(path, started)
  BY DEF StreamInv, StreamTypes, CallsInv
<1>3. \E acc \in Accumulators(path, sent) : script' = acc.chunks /\ started' = acc.started
  <2>1. CASE path = "openai"
    <3>1. PICK ev \in OpenAIEvents : /\ script' = OpenAIStream(started, ev).chunks
                                     /\ started' = OpenAIStream(started, ev).started
      BY <2>1 DEF NextEvent
    <3>2. OpenAIStream(started, ev) \in Accumulators(path, sent)
      BY <1>2, <2>1, OpenAIRead
    <3> QED
      BY <3>1, <3>2
  <2>2. CASE path = "gemini"
    <3>1. PICK ev \in GeminiEvents : /\ script' = GeminiStream(started, ev).chunks
                                     /\ started' = GeminiStream(started, ev).started
      BY <2>2 DEF NextEvent
    <3>2. GeminiStream(started, ev) \in Accumulators(path, sent)
      BY <1>2, <2>2, GeminiRead
    <3> QED
      BY <3>1, <3>2
  <2> QED
    BY <1>1, <2>1, <2>2
<1>4. /\ script' \in Seq(ChunkEvents) /\ started' \in StartedCalls
      /\ Assembled(path, started', sent \o script') /\ Numbered(path, started')
  BY <1>3 DEF Accumulators
<1>5. \A type : Sent(type)' = Sent(type)
  BY <1>1, SentKept
<1>6. StreamTypes'
  BY <1>1, <1>4 DEF StreamInv, StreamTypes
<1>7. RepairInv'
  BY <1>1 DEF StreamInv, RepairInv
<1>8. TurnInv'
  BY <1>1 DEF TurnInv
<1>9. YieldInv'
  BY <1>1 DEF YieldInv
<1>10. FrameInv'
  BY <1>1, <1>5 DEF StreamInv, FrameInv
<1>11. SinkInv'
  BY <1>1, <1>5 DEF StreamInv, SinkInv
<1>12. CallsInv'
  <2>1. Assembled(path, started', sent)
    BY <1>2, <1>4, PrefixAssembled
  <2> QED
    BY <1>1, <1>4, <2>1 DEF CallsInv
<1> QED
  BY <1>4, <1>6, <1>7, <1>8, <1>9, <1>10, <1>11, <1>12 DEF StreamInv

\* Where the generators go when there is nothing left to yield, or no client.
LEMMA EndsKeep == StreamInv /\ (ScriptEnds \/ StreamEnds \/ Cancel \/ Leave) => StreamInv'
<1> SUFFICES ASSUME StreamInv, ScriptEnds \/ StreamEnds \/ Cancel \/ Leave PROVE StreamInv'
  OBVIOUS
<1>1. /\ UNCHANGED << structuredVars, path, started, sent, turns, sink >>
      /\ UNCHANGED << policy, hasSchema, maxAttempts, attempts, instructions, answer >>
      /\ UNCHANGED << manual, script >>
  BY DEF ScriptEnds, StreamEnds, Cancel, Leave, structuredVars, policyVars, loopVars
<1>2. /\ RepairInv' /\ SinkInv' /\ started' \in StartedCalls
      /\ Numbered(path, started)' /\ Assembled(path, started, sent)'
      /\ \A type : Sent(type)' = Sent(type)
  BY <1>1, QuietKeeps
<1>3. StreamTypes'
  <2>1. pc' \in {"ask", "script", "chunks", "record", "error", "end", "closed"}
    BY DEF StreamInv, StreamTypes, ScriptEnds, StreamEnds, Cancel, Leave
  <2>2. here' \in BOOLEAN
    BY DEF StreamInv, StreamTypes, ScriptEnds, StreamEnds, Cancel, Leave
  <2> QED
    BY <1>1, <2>1, <2>2 DEF StreamInv, StreamTypes
<1>4. TurnInv'
  <2>1. CASE ScriptEnds
    BY <1>1, <1>2, <2>1 DEF StreamInv, StreamTypes, TurnInv, YieldInv, FrameInv, ScriptEnds
  <2>2. CASE StreamEnds
    BY <1>1, <1>2, <2>2 DEF StreamInv, TurnInv, FrameInv, StreamEnds
  <2>3. CASE Cancel
    BY <1>1, <1>2, <2>3 DEF StreamInv, TurnInv, Cancel
  <2>4. CASE Leave
    BY <1>1, <1>2, <2>4 DEF StreamInv, TurnInv, Leave
  <2> QED
    BY <2>1, <2>2, <2>3, <2>4
<1>5. YieldInv'
  <2>1. pc' = "script" => pc = "script"
    BY DEF ScriptEnds, StreamEnds, Cancel, Leave
  <2> QED
    BY <1>1, <1>2, <2>1 DEF StreamInv, YieldInv
<1>6. FrameInv'
  <2>1. CASE ScriptEnds \/ StreamEnds
    <3>1. Sent("error") = {} /\ Sent("end") = {} /\ pc' # "closed"
      BY <2>1 DEF StreamInv, FrameInv, ScriptEnds, StreamEnds
    <3> QED
      BY <1>2, <3>1 DEF FrameInv
  <2>2. CASE Cancel
    BY <1>1, <1>2, <2>2 DEF StreamInv, FrameInv, Cancel
  <2>3. CASE Leave
    BY <1>1, <1>2, <2>3 DEF StreamInv, FrameInv, Leave
  <2> QED
    BY <2>1, <2>2, <2>3
<1>7. CallsInv'
  <2>1. pc' \in {"script", "chunks"} => pc' = pc
    BY DEF ScriptEnds, StreamEnds, Cancel, Leave
  <2> QED
    BY <1>1, <1>2, <2>1 DEF StreamInv, CallsInv
<1> QED
  BY <1>2, <1>3, <1>4, <1>5, <1>6, <1>7 DEF StreamInv

LEMMA RecordTurnKeeps == StreamInv /\ RecordTurn => StreamInv'
<1> SUFFICES ASSUME StreamInv, RecordTurn PROVE StreamInv'
  OBVIOUS
<1>1. /\ pc = "record" /\ pc' = "end" /\ turns' = turns + 1 /\ turns = 0
      /\ UNCHANGED << policy, hasSchema, maxAttempts, attempts, instructions, answer >>
      /\ UNCHANGED << path, manual, script, started, sent, sink, here >>
  BY DEF StreamInv, StreamTypes, TurnInv, RecordTurn, structuredVars, policyVars, loopVars
<1>2. \A type : Sent(type)' = Sent(type)
  BY <1>1, SentKept
<1>3. StreamTypes'
  BY <1>1 DEF StreamInv, StreamTypes
<1>4. RepairInv'
  BY <1>1 DEF StreamInv, RepairInv
<1>5. TurnInv'
  BY <1>1, <1>2 DEF StreamInv, TurnInv
<1>6. YieldInv'
  BY <1>1, <1>2 DEF StreamInv, YieldInv
<1>7. FrameInv'
  BY <1>1, <1>2 DEF StreamInv, FrameInv, TurnInv
<1>8. SinkInv'
  BY <1>1, <1>2 DEF StreamInv, SinkInv
<1>9. CallsInv'
  BY <1>1 DEF StreamInv, CallsInv
<1> QED
  BY <1>1, <1>3, <1>4, <1>5, <1>6, <1>7, <1>8, <1>9 DEF StreamInv

\* The endpoint's own events, an error and the end.
LEMMA ClosingKeeps == StreamInv /\ (SendError \/ SendEnd) => StreamInv'
<1> SUFFICES ASSUME StreamInv, SendError \/ SendEnd PROVE StreamInv'
  OBVIOUS
<1>1. PICK type \in {"error", "end"} :
        /\ sent' = Append(sent, Chunk(type))
        /\ \/ type = "error" /\ pc = "error" /\ pc' = "end"
           \/ type = "end" /\ pc = "end" /\ pc' = "closed"
        /\ UNCHANGED << policy, hasSchema, maxAttempts, attempts, instructions, answer >>
        /\ UNCHANGED << path, manual, script, started, turns, sink, here >>
  <2>1. CASE SendError
    BY <2>1 DEF SendError, structuredVars, policyVars, loopVars
  <2>2. CASE SendEnd
    BY <2>2 DEF SendEnd, structuredVars, policyVars, loopVars
  <2> QED
    BY <2>1, <2>2
<1> DEFINE c == Chunk(type)
<1>2. c \in Events /\ c.type = type
  BY ChunkFacts
<1>3. sent' = Append(sent, c)
  BY <1>1
<1> HIDE DEF c
<1>4. sent \in Seq(Events)
  BY DEF StreamInv, StreamTypes
<1>5. /\ \A other : Sent(other)' = IF c.type = other THEN Sent(other) \cup {Len(sent) + 1}
                                                    ELSE Sent(other)
      /\ \A other : Sent(other) \in SUBSET (1 .. Len(sent))
      /\ Len(sent) \in Nat /\ Len(sent') = Len(sent) + 1 /\ sent' \in Seq(Events)
  BY <1>2, <1>3, <1>4, SentGrows
<1>6. /\ \A i \in DOMAIN sent' : i \in DOMAIN sent \/ i = Len(sent) + 1
      /\ \A i \in DOMAIN sent : sent'[i] = sent[i]
      /\ sent'[Len(sent) + 1] = c
      /\ DOMAIN sent = 1 .. Len(sent)
  BY <1>2, <1>3, <1>4, AppendFacts
<1>7. \A other : other # type => Sent(other)' = Sent(other)
  BY <1>2, <1>5
<1>8. Sent("end") = {} /\ (type = "error" => Sent("error") = {} /\ turns = 0)
  BY <1>1 DEF StreamInv, StreamTypes, FrameInv, TurnInv
<1>9. StreamTypes'
  BY <1>1, <1>5 DEF StreamInv, StreamTypes
<1>10. RepairInv'
  BY <1>1 DEF StreamInv, RepairInv
<1>11. TurnInv'
  <2>1. Sent("message.end")' = Sent("message.end")
    BY <1>1, <1>7
  <2>2. type = "end" => Sent("error")' = Sent("error")
    BY <1>7
  <2> QED
    BY <1>1, <1>8, <2>1, <2>2 DEF StreamInv, TurnInv
<1>12. YieldInv'
  <2>1. SUFFICES ASSUME path' = "structured"
                 PROVE  YieldInv'
    BY DEF YieldInv
  <2>2. path = "structured" /\ pc' # "script"
    BY <1>1, <2>1
  <2>3. \A i \in DOMAIN sent' :
          sent'[i].type \in {"role", "content.delta"} => i \in DOMAIN sent /\ sent'[i] = sent[i]
    BY <1>2, <1>6
  <2>4. Sent("error")' # {} => sent'[1].type = "error"
    <3>1. CASE type = "error"
      <4>1. sent = << >>
        BY <1>1, <2>2, <3>1 DEF StreamInv, TurnInv
      <4>2. Len(sent) = 0
        BY <4>1
      <4> QED
        BY <1>2, <1>6, <3>1, <4>2
    <3>2. CASE type = "end"
      <4>1. SUFFICES ASSUME Sent("error") # {} PROVE sent'[1].type = "error"
        BY <1>7, <3>2
      <4>2. sent[1].type = "error"
        BY <2>2, <4>1 DEF StreamInv, YieldInv
      <4>3. 1 \in DOMAIN sent
        BY <1>5, <1>6, <4>1 DEF Sent
      <4> QED
        BY <1>6, <4>2, <4>3
    <3> QED
      BY <3>1, <3>2
  <2> QED
    BY <1>1, <2>2, <2>3, <2>4 DEF StreamInv, YieldInv
<1>13. FrameInv'
  <2>1. CASE type = "error"
    <3>1. Sent("error")' = {Len(sent) + 1} /\ Sent("end")' = {}
      BY <1>2, <1>5, <1>7, <1>8, <2>1
    <3> QED
      BY <1>1, <1>5, <1>8, <2>1, <3>1 DEF FrameInv
  <2>2. CASE type = "end"
    <3>1. Sent("end")' = {Len(sent) + 1} /\ Sent("error")' = Sent("error")
      BY <1>2, <1>5, <1>7, <1>8, <2>2
    <3>2. \A i \in Sent("error") : i = Len(sent)
      BY <1>1, <2>2 DEF StreamInv, FrameInv
    <3>3. Sent("error") # {} => turns = 0
      BY DEF StreamInv, FrameInv
    <3> QED
      BY <1>1, <1>2, <1>5, <1>6, <2>2, <3>1, <3>2, <3>3 DEF FrameInv
  <2> QED
    BY <2>1, <2>2
<1>14. SinkInv'
  <2>1. Sent("message.end")' = Sent("message.end")
    BY <1>1, <1>7
  <2> QED
    BY <1>1, <2>1 DEF StreamInv, SinkInv
<1>15. CallsInv'
  <2>1. c.type \notin {"tool_call.start", "tool_call.delta"}
    BY <1>2
  <2>2. Assembled(path, started, sent')
    BY <1>2, <1>3, <1>4, <2>1, PlainKeeps DEF StreamInv, CallsInv
  <2> QED
    BY <1>1, <2>2 DEF StreamInv, CallsInv
<1> QED
  BY <1>1, <1>9, <1>10, <1>11, <1>12, <1>13, <1>14, <1>15 DEF StreamInv

LEMMA StreamStutters == StreamInv /\ UNCHANGED streamingVars => StreamInv'
<1> SUFFICES ASSUME StreamInv, UNCHANGED streamingVars PROVE StreamInv'
  OBVIOUS
<1>1. /\ UNCHANGED << structuredVars, path, started, sent, turns, sink >>
      /\ UNCHANGED << policy, hasSchema, maxAttempts, attempts, instructions, answer >>
      /\ UNCHANGED << manual, script, pc, here >>
  BY DEF streamingVars, streamVars, structuredVars, policyVars, loopVars
<1>2. /\ RepairInv' /\ SinkInv' /\ started' \in StartedCalls
      /\ Numbered(path, started)' /\ Assembled(path, started, sent)'
      /\ \A type : Sent(type)' = Sent(type)
  BY <1>1, QuietKeeps
<1>3. StreamTypes'
  BY <1>1 DEF StreamInv, StreamTypes
<1>4. TurnInv' /\ YieldInv' /\ FrameInv'
  BY <1>1, <1>2 DEF StreamInv, TurnInv, YieldInv, FrameInv
<1>5. CallsInv'
  BY <1>1, <1>2 DEF StreamInv, CallsInv
<1> QED
  BY <1>2, <1>3, <1>4, <1>5 DEF StreamInv

LEMMA StreamStepKeeps == StreamInv /\ [StreamNext]_streamingVars => StreamInv'
BY AskKeeps, YieldKeeps, NextEventKeeps, EndsKeep, RecordTurnKeeps, ClosingKeeps, StreamStutters
   DEF StreamNext

\* StreamInv is an inductive invariant of the streaming endpoint.
THEOREM StreamInvariance == StreamSpec => []StreamInv
BY StreamInitHolds, StreamStepKeeps, PTL DEF StreamSpec
-----------------------------------------------------------------------------
\* Whatever the model API sends, however many tool calls it mixes and whenever
\* the client leaves: one end event closes the stream, an error comes right
\* before it, and a client that stayed is told the end.  With the types.
THEOREM StreamFramed == StreamSpec => []StreamIsFramed
<1>1. StreamInv => StreamIsFramed
  <2>1. SUFFICES ASSUME StreamInv PROVE StreamIsFramed
    OBVIOUS
  <2>2. StreamTypeOK
    <3>1. \A i \in DOMAIN sent : sent[i].type \in ChunkTypes \cup {"error", "end"}
      <4>1. sent \in Seq(Events)
        BY <2>1 DEF StreamInv, StreamTypes
      <4>2. \A e \in Events : e.type \in ChunkTypes \cup {"error", "end"}
        BY DEF Events
      <4> QED
        BY <4>1, <4>2
    <3>2. \A i \in DOMAIN script : script[i].type \in ChunkTypes
      BY <2>1 DEF StreamInv, StreamTypes, ChunkEvents
    <3> QED
      BY <2>1, <3>1, <3>2 DEF StreamInv, StreamTypes, StreamTypeOK, RepairInv
  <2> QED
    BY <2>1, <2>2 DEF StreamInv, FrameInv, StreamIsFramed
<1> QED
  BY <1>1, StreamInvariance, PTL

\* For any tool calls and any events: a call is started once, and from then on
\* all that has its index is told to be of it, rightly so where calls are numbered.
THEOREM DeltasCorrect == StreamSpec => []DeltasNameTheirCall
<1>1. StreamInv => DeltasNameTheirCall
  <2>1. SUFFICES ASSUME StreamInv PROVE DeltasNameTheirCall
    OBVIOUS
  <2>2. Assembled(path, started, sent)
    BY <2>1 DEF StreamInv, CallsInv
  <2> QED
    BY <2>2 DEF Assembled, DeltasNameTheirCall, Sent
<1> QED
  BY <1>1, StreamInvariance, PTL

\* For every policy and number of repairs: a structured stream yields nothing
\* before the model has answered, and refuses only after its last attempt.
THEOREM StructuredCorrect == StreamSpec => []StructuredIsAllOrNothing
<1>1. StreamInv => StructuredIsAllOrNothing
  <2>1. SUFFICES ASSUME StreamInv, path = "structured" PROVE StructuredIsAllOrNothing
    BY DEF StructuredIsAllOrNothing
  <2>2. Sent("role") # {} => answer \in {"json", "text", "empty"}
    BY <2>1 DEF StreamInv, YieldInv, Sent
  <2>3. Sent("content.delta") # {} => answer \in {"json", "text"}
    BY <2>1 DEF StreamInv, YieldInv, Sent
  <2>4. Sent("error") # {} => sent[1].type = "error"
    BY <2>1 DEF StreamInv, YieldInv
  <2>5. RepairInv
    BY <2>1 DEF StreamInv
  <2> QED
    BY <2>2, <2>3, <2>4, <2>5 DEF StructuredIsAllOrNothing, RepairInv
<1> QED
  BY <1>1, StreamInvariance, PTL

\* The telemetry counts a turn only of a stream that was brought to its end,
\* and every snapshot of it belongs to a message.end and is older than the turn.
THEOREM TurnsCounted == StreamSpec => []TurnsAreServed
<1>1. StreamInv => TurnsAreServed
  <2>1. SUFFICES ASSUME StreamInv PROVE TurnsAreServed
    OBVIOUS
  <2>2. turns > 0 => /\ path # "refused" /\ Sent("error") = {}
                     /\ path = "structured" => script = << >> /\ Sent("message.end") # {}
    BY <2>1 DEF StreamInv, StreamTypes, TurnInv
  <2>3. \A i \in DOMAIN sink : sink[i] = 0
    BY <2>1 DEF StreamInv, StreamTypes
  <2> QED
    BY <2>1, <2>2, <2>3 DEF StreamInv, SinkInv, TurnsAreServed
<1> QED
  BY <1>1, StreamInvariance, PTL

=============================================================================
