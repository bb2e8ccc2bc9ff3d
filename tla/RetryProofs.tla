---------------------------- MODULE RetryProofs ----------------------------
(***************************************************************************)
(* Proofs about the two places where work is retried: Register under an    *)
(* idempotency key (module Registration), for any keys, attempts, services *)
(* and values, and the provisioning saga (module Provisioning), for any    *)
(* number of attempts and of runs and for every kind of failure, late      *)
(* attempts and cancellation included.  RegInv and SagaInv are inductive.  *)
(***************************************************************************)
EXTENDS Registration, Provisioning, TLAPS

\* The time the provers may take for a step.
USE SMTT(60)

-----------------------------------------------------------------------------
(* What the domain methods do to a row.                                    *)

\* Register yields a row under the command's name.
LEMMA RegisterRow ==
    ASSUME NEW c \in RegisterCommand, NEW now \in Nat
    PROVE  Register(c, now) \in Service /\ Register(c, now).name = c.name
  BY DEF RegisterCommand, Register, Service, Lifecycle

\* touch keeps a row well-formed and under its name.
LEMMA TouchRow ==
    ASSUME NEW s \in Service, NEW now \in Nat
    PROVE  touch(s, now) \in Service /\ touch(s, now).name = s.name
  <1> DEFINE u == [s EXCEPT !.version = s.version + 1]
  <1>1. u \in Service /\ u.name = s.name
    BY DEF Service
  <1>2. touch(s, now) = [u EXCEPT !.updatedAt = now]
    BY DEF touch
  <1> HIDE DEF u
  <1> QED BY <1>1, <1>2 DEF Service

\* So does every domain method.
LEMMA AppliedRow ==
    ASSUME NEW s \in Service, NEW c \in MutateCommand, NEW now \in Nat
    PROVE  Applied(s, c, now) \in Service /\ Applied(s, c, now).name = s.name
  <1>1. CASE IsNoOp(s, c)
    BY <1>1 DEF Applied
  <1>2. CASE ~IsNoOp(s, c) /\ c \in OwnershipCommand
    <2> DEFINE u == [s EXCEPT !.ownership = c.ownership]
    <2>1. u \in Service /\ u.name = s.name
      BY <1>2 DEF Service, OwnershipCommand
    <2>2. Applied(s, c, now) = touch(u, now)
      BY <1>2 DEF Applied, OwnershipCommand
    <2> HIDE DEF u
    <2> QED BY <2>1, <2>2, TouchRow
  <1>3. CASE ~IsNoOp(s, c) /\ c \in LifecycleCommand
    <2> DEFINE u == [s EXCEPT !.lifecycle = c.lifecycle]
    <2>1. u \in Service /\ u.name = s.name
      BY <1>3 DEF Service, LifecycleCommand
    <2>2. Applied(s, c, now) = touch(u, now)
      BY <1>3 DEF Applied, LifecycleCommand
    <2> HIDE DEF u
    <2> QED BY <2>1, <2>2, TouchRow
  <1>4. CASE ~IsNoOp(s, c) /\ c \in RetireCommand
    <2> DEFINE u == [s EXCEPT !.lifecycle = "retired"]
    <2>1. u \in Service /\ u.name = s.name
      BY DEF Service, Lifecycle
    <2>2. Applied(s, c, now) = touch(u, now)
      BY <1>4 DEF Applied, RetireCommand
    <2> HIDE DEF u
    <2> QED BY <2>1, <2>2, TouchRow
  <1> QED BY <1>1, <1>2, <1>3, <1>4 DEF MutateCommand

-----------------------------------------------------------------------------
(* Steps of one handler.                                                   *)

\* The handler of one attempt takes a step.
LEMMA OneAttempt ==
    ASSUME TypeOK, NEW a \in Attempt, NEW x \in Handler, attempts' = [attempts EXCEPT ![a] = x]
    PROVE  /\ attempts' \in [Attempt -> {Unsent} \cup Handler]
           /\ \A b \in Attempt : attempts'[b] = IF b = a THEN x ELSE attempts[b]
  BY DEF TypeOK

\* What is known of an attempt that was sent.
LEMMA SentFields ==
    ASSUME TypeOK, NEW a \in Attempt, Sent(a)
    PROVE  /\ attempts[a] \in Handler /\ attempts[a].key \in Key
           /\ attempts[a].pc \in {"lookup", "register", "save", "done"}
           /\ attempts[a].created \in BOOLEAN
           /\ attempts[a].answer \in CreatedResponse \cup {Conflict, Failed, Null}
  <1>1. attempts[a] \in Handler
    BY DEF TypeOK, Sent, At, Unsent
  <1> QED BY <1>1 DEF Handler

\* The handler moves on.
LEMMA SentGoto ==
    ASSUME TypeOK, NEW a \in Attempt, Sent(a), NEW at
    PROVE  [attempts EXCEPT ![a].pc = at]
            = [attempts EXCEPT ![a] = [pc |-> at, key |-> attempts[a].key,
                        created |-> attempts[a].created, answer |-> attempts[a].answer]]
  <1> DEFINE x == attempts[a]
  <1>1. attempts \in [Attempt -> {Unsent} \cup Handler]
    BY DEF TypeOK
  <1>2. [x EXCEPT !.pc = at] = [pc |-> at, key |-> x.key, created |-> x.created, answer |-> x.answer]
    BY SentFields DEF Handler
  <1>3. [attempts EXCEPT ![a].pc = at] = [attempts EXCEPT ![a] = [x EXCEPT !.pc = at]]
    BY <1>1
  <1> QED BY <1>2, <1>3, ZenonT(60)

\* The handler moves on with an answer.
LEMMA SentAnswer ==
    ASSUME TypeOK, NEW a \in Attempt, Sent(a), NEW at, NEW r
    PROVE  [attempts EXCEPT ![a].pc = at, ![a].answer = r]
            = [attempts EXCEPT ![a] = [pc |-> at, key |-> attempts[a].key,
                        created |-> attempts[a].created, answer |-> r]]
  <1> DEFINE x == attempts[a]
             y == [pc |-> at, key |-> x.key, created |-> x.created, answer |-> x.answer]
  <1>1. attempts \in [Attempt -> {Unsent} \cup Handler]
    BY DEF TypeOK
  <1>2. [x EXCEPT !.pc = at] = y
    BY SentFields DEF Handler
  <1>3. [y EXCEPT !.answer = r] = [pc |-> at, key |-> x.key, created |-> x.created, answer |-> r]
    OBVIOUS
  <1>4. [attempts EXCEPT ![a].pc = at, ![a].answer = r]
            = [attempts EXCEPT ![a] = [[x EXCEPT !.pc = at] EXCEPT !.answer = r]]
    BY <1>1, ZenonT(60)
  <1> QED BY <1>2, <1>3, <1>4, ZenonT(60)

\* Attempt a has become x: it created its service and has an answer.
Became(a, x, at, r) ==
    /\ attempts' = [attempts EXCEPT ![a] = x]
    /\ x.pc = at /\ x.key = attempts[a].key /\ x.created = TRUE /\ x.answer = r

\* The handler notes that it created its service, and moves on with an answer.
LEMMA SentCreated ==
    ASSUME TypeOK, NEW a \in Attempt, Sent(a),
           NEW at \in {"save", "done"}, NEW r \in CreatedResponse \cup {Failed},
           Committed(a, at, r)
    PROVE  \E x \in Handler : Became(a, x, at, r)
  <1> DEFINE u == [attempts[a] EXCEPT !.pc = at]
             v == [u EXCEPT !.created = TRUE]
             x == [v EXCEPT !.answer = r]
  <1>1. attempts \in [Attempt -> {Unsent} \cup Handler] /\ attempts[a] \in Handler
    BY SentFields DEF TypeOK
  <1>2. attempts' = [attempts EXCEPT ![a] = x]
    BY <1>1, ZenonT(60) DEF Committed
  <1>3. u \in Handler /\ u.pc = at /\ u.key = attempts[a].key
    BY <1>1 DEF Handler
  <1> HIDE DEF u
  <1>4. v \in Handler /\ v.pc = at /\ v.key = attempts[a].key /\ v.created = TRUE
    BY <1>3, ZenonT(60) DEF Handler
  <1> HIDE DEF v
  <1>5. x \in Handler /\ x.pc = at /\ x.key = attempts[a].key /\ x.created = v.created /\ x.answer = r
    BY <1>4 DEF Handler
  <1>6. Became(a, x, at, r)
    BY <1>2, <1>4, <1>5, ZenonT(60) DEF Became
  <1> QED BY <1>5, <1>6, ZenonT(60)

\* What a reader of the invariant knows of one attempt and one key.
LEMMA RegInvAt ==
    ASSUME RegInv
    PROVE  /\ TypeOK /\ services \in [ServiceID -> Service \cup {Null}]
           /\ bodies \in [Key -> Body \cup {Null}] /\ keys \in [Key -> CreatedResponse \cup {Null}]
           /\ \A k \in Key : keys[k] # Null => keys[k].id \in ServiceID
  <1>1. services \in [ServiceID -> Service \cup {Null}]
    BY DEF RegInv
  <1>2. \A x \in CreatedResponse : x.id \in ServiceID
    BY DEF CreatedResponse
  <1> QED BY <1>1, <1>2 DEF RegInv, TypeOK

\* A handler goes on, or ends, without writing anything: its answer, if it is one of
\* success, is its own or the stored one.
LEMMA AnswerKeepsReg ==
    ASSUME RegInv, Attempt = ServiceID, NullIsNoAnswer,
           NEW a \in Attempt, Sent(a), ~ At(a, "done"),
           NEW x \in Handler, attempts' = [attempts EXCEPT ![a] = x],
           x.key = attempts[a].key, x.created = attempts[a].created,
           x.pc \in {"register", "done"},
           x.pc = "register" => ~ x.created /\ x.answer = Null,
           x.answer \in CreatedResponse => \/ x.created /\ x.answer.id = a
                                           \/ x.pc = "done" /\ x.answer = keys[x.key],
           UNCHANGED <<services, bodies, keys>>
    PROVE  RegInv'
  <1>1. /\ attempts' \in [Attempt -> {Unsent} \cup Handler]
        /\ \A b \in Attempt : attempts'[b] = IF b = a THEN x ELSE attempts[b]
    BY OneAttempt, RegInvAt, ZenonT(60)
  <1>2. x.pc # "unsent" /\ Sent(a)'
    BY <1>1 DEF Sent, At
  <1>3. \A b \in Attempt : Sent(b)' <=> Sent(b)
    BY <1>1, <1>2 DEF Sent, At
  <1>4. TypeOK'
    BY <1>1, RegInvAt DEF TypeOK
  <1>5. RowsAreCreated'
    BY <1>1, <1>3 DEF RegInv, RowsAreCreated
  <1>6. NamesDiffer'
    BY DEF RegInv, NamesDiffer
  <1>7. AnswersExplained'
    BY <1>1, <1>3 DEF RegInv, AnswersExplained, At
  <1>8. KeysExplained'
    BY <1>1, RegInvAt DEF RegInv, KeysExplained, At
  <1> QED BY <1>4, <1>5, <1>6, <1>7, <1>8 DEF RegInv

\* An attempt registers its service under a name that was free.
LEMMA ExecuteKeepsReg ==
    ASSUME RegInv, Attempt = ServiceID, NullIsNoAnswer,
           NEW a \in Attempt, At(a, "register"),
           NEW row \in Service, row.name = bodies[attempts[a].key].name,
           \A s \in ServiceID : services[s] # Null => services[s].name # row.name,
           services' = [services EXCEPT ![a] = row],
           NEW x \in Handler, attempts' = [attempts EXCEPT ![a] = x],
           x.key = attempts[a].key, x.created = TRUE,
           \/ x.pc = "save" /\ x.answer \in CreatedResponse /\ x.answer.id = a
           \/ x.pc = "done" /\ x.answer = Failed,
           UNCHANGED <<bodies, keys>>
    PROVE  RegInv'
  <1>0. Sent(a) /\ ~ At(a, "done")
    BY DEF Sent, At
  <1>1. /\ attempts' \in [Attempt -> {Unsent} \cup Handler]
        /\ \A b \in Attempt : attempts'[b] = IF b = a THEN x ELSE attempts[b]
    BY OneAttempt, RegInvAt, ZenonT(60)
  <1>2. /\ services' \in [ServiceID -> Service \cup {Null}] /\ row # Null
        /\ \A s \in ServiceID : services'[s] = IF s = a THEN row ELSE services[s]
    BY RegInvAt, NullAssumption
  <1>3. \A b \in Attempt : Sent(b)' <=> Sent(b)
    BY <1>0, <1>1 DEF Sent, At
  <1>4. TypeOK' /\ services' \in [ServiceID -> Service \cup {Null}]
    BY <1>1, <1>2, RegInvAt DEF TypeOK
  <1>5. RowsAreCreated'
    BY <1>0, <1>1, <1>2, <1>3 DEF RegInv, RowsAreCreated
  <1>6. NamesDiffer'
    BY <1>2 DEF RegInv, NamesDiffer
  <1>7. x.answer \in CreatedResponse => x.created /\ x.answer.id = a
    BY DEF Failed, CreatedResponse
  <1>8. AnswersExplained'
    BY <1>1, <1>3, <1>7 DEF RegInv, AnswersExplained, At
  <1>9. KeysExplained'
    BY <1>0, <1>1, RegInvAt DEF RegInv, KeysExplained, At
  <1> QED BY <1>4, <1>5, <1>6, <1>8, <1>9 DEF RegInv

\* A request is sent: its key was drawn for its body, now or earlier.
LEMMA SendKeepsReg ==
    ASSUME RegInv, Attempt = ServiceID, NullIsNoAnswer,
           NEW a \in Attempt, NEW k \in Key, NEW b \in Body, Send(a, k, b)
    PROVE  RegInv'
  <1> DEFINE x == [pc |-> "lookup", key |-> k, created |-> FALSE, answer |-> Null]
  <1>1. /\ At(a, "unsent") /\ bodies[k] \in {Null, b} /\ bodies' = [bodies EXCEPT ![k] = b]
        /\ attempts' = [attempts EXCEPT ![a] = x] /\ UNCHANGED <<services, keys>>
    BY DEF Send
  <1>2. x \in Handler /\ x.pc = "lookup" /\ x.key = k /\ ~ x.created /\ x.answer = Null
    BY DEF Handler
  <1> HIDE DEF x
  <1>3. /\ attempts' \in [Attempt -> {Unsent} \cup Handler]
        /\ \A o \in Attempt : attempts'[o] = IF o = a THEN x ELSE attempts[o]
    BY <1>1, <1>2, OneAttempt, RegInvAt, ZenonT(60)
  <1>4. /\ bodies' \in [Key -> Body \cup {Null}] /\ b # Null
        /\ \A j \in Key : bodies'[j] = IF j = k THEN b ELSE bodies[j]
    BY <1>1, RegInvAt DEF NullIsNoAnswer
  <1>5. \A o \in Attempt : Sent(o)' <=> o = a \/ Sent(o)
    BY <1>2, <1>3 DEF Sent, At
  <1>6. ~ Sent(a)
    BY <1>1 DEF Sent
  <1>7. \A o \in Attempt : Sent(o) => attempts[o].key \in Key
    BY SentFields, RegInvAt
  <1>8. TypeOK' /\ services' \in [ServiceID -> Service \cup {Null}]
    BY <1>1, <1>3, <1>4, RegInvAt DEF TypeOK
  <1>9. RowsAreCreated'
    BY <1>1, <1>2, <1>3, <1>4, <1>5, <1>6, <1>7 DEF RegInv, RowsAreCreated
  <1>10. NamesDiffer'
    BY <1>1 DEF RegInv, NamesDiffer
  <1>11. AnswersExplained'
    BY <1>1, <1>2, <1>3, <1>5, <1>6 DEF RegInv, AnswersExplained, At, NullIsNoAnswer
  <1>12. KeysExplained'
    BY <1>1, <1>3, RegInvAt DEF RegInv, KeysExplained, At
  <1> QED BY <1>8, <1>9, <1>10, <1>11, <1>12 DEF RegInv

\* The response is stored unless another one was, and the handler ends.
LEMMA SaveKeepsReg ==
    ASSUME RegInv, Attempt = ServiceID, NullIsNoAnswer,
           NEW a \in Attempt, Save(a)
    PROVE  RegInv'
  <1> DEFINE k == attempts[a].key
             x == [pc |-> "done", key |-> k, created |-> attempts[a].created, answer |-> attempts[a].answer]
  <1>1. /\ At(a, "save") /\ Sent(a)
        /\ keys' = [keys EXCEPT ![k] = IF @ = Null THEN attempts[a].answer ELSE @]
        /\ attempts' = [attempts EXCEPT ![a].pc = "done"] /\ UNCHANGED <<services, bodies>>
    BY DEF Save, Goto, Sent, At
  <1>2. /\ attempts[a] \in Handler /\ k \in Key /\ attempts' = [attempts EXCEPT ![a] = x]
        /\ attempts[a].created \in BOOLEAN
    BY <1>1, SentFields, SentGoto, RegInvAt, ZenonT(60)
  <1>3. /\ attempts[a].created /\ attempts[a].answer \in CreatedResponse
        /\ attempts[a].answer.id = a
    BY <1>1 DEF RegInv, AnswersExplained, At
  <1>4. /\ x \in Handler /\ x.pc = "done" /\ x.key = k
        /\ x.created = attempts[a].created /\ x.answer = attempts[a].answer
    BY <1>2, <1>3 DEF Handler
  <1> HIDE DEF x
  <1>5. /\ attempts' \in [Attempt -> {Unsent} \cup Handler]
        /\ \A o \in Attempt : attempts'[o] = IF o = a THEN x ELSE attempts[o]
    BY <1>2, <1>4, OneAttempt, RegInvAt, ZenonT(60)
  <1>6. /\ keys' \in [Key -> CreatedResponse \cup {Null}]
        /\ \A j \in Key : keys'[j] = IF j = k /\ keys[j] = Null THEN attempts[a].answer ELSE keys[j]
    BY <1>1, <1>2, <1>3, RegInvAt
  <1>7. \A o \in Attempt : Sent(o)' <=> Sent(o)
    BY <1>1, <1>4, <1>5 DEF Sent, At
  <1>8. TypeOK' /\ services' \in [ServiceID -> Service \cup {Null}]
    BY <1>1, <1>5, <1>6, RegInvAt DEF TypeOK
  <1>9. RowsAreCreated'
    BY <1>1, <1>4, <1>5, <1>7 DEF RegInv, RowsAreCreated
  <1>10. NamesDiffer'
    BY <1>1 DEF RegInv, NamesDiffer
  <1>11. \A o \in Attempt : Sent(o) => attempts[o].key \in Key
    BY SentFields, RegInvAt
  <1>12. AnswersExplained'
    <2> SUFFICES ASSUME NEW o \in Attempt, Sent(o)'
                 PROVE  /\ attempts'[o].pc \in {"lookup", "register"} =>
                              ~ attempts'[o].created /\ attempts'[o].answer = Null
                        /\ At(o, "save")' => attempts'[o].created /\ attempts'[o].answer \in CreatedResponse
                        /\ attempts'[o].answer \in CreatedResponse =>
                              \/ attempts'[o].created /\ attempts'[o].answer.id = o
                              \/ At(o, "done")' /\ attempts'[o].answer = keys'[attempts'[o].key]
      BY DEF AnswersExplained
    <2>1. CASE o = a
      BY <1>3, <1>4, <1>5, <2>1, ZenonT(60) DEF At
    <2>2. CASE o # a
      <3>1. attempts'[o] = attempts[o] /\ Sent(o) /\ attempts[o].key \in Key
        BY <1>5, <1>7, <1>11, <2>2
      <3>2. Null \notin CreatedResponse
        BY DEF NullIsNoAnswer
      <3>3. attempts[o].answer \in CreatedResponse /\ attempts[o].answer = keys[attempts[o].key]
               => keys'[attempts[o].key] = keys[attempts[o].key]
        BY <1>6, <3>1, <3>2
      <3> QED BY <3>1, <3>3 DEF RegInv, AnswersExplained, At
    <2> QED BY <2>1, <2>2
  <1>13. KeysExplained'
    <2> SUFFICES ASSUME NEW j \in Key, NEW o \in Attempt, keys'[j] # Null, keys'[j].id = o
                 PROVE  /\ At(o, "done")' /\ attempts'[o].key = j
                        /\ attempts'[o].created /\ attempts'[o].answer = keys'[j]
      BY DEF KeysExplained
    <2>1. CASE j = k /\ keys[j] = Null
      <3>1. keys'[j] = attempts[a].answer
        BY <1>6, <2>1
      <3>2. attempts'[o] = x
        BY <1>3, <1>5, <3>1
      <3> QED BY <1>3, <1>4, <2>1, <3>1, <3>2, ZenonT(60) DEF At
    <2>2. CASE ~ (j = k /\ keys[j] = Null)
      <3>1. keys'[j] = keys[j]
        BY <1>6, <2>2
      <3>2. /\ At(o, "done") /\ attempts[o].key = j
            /\ attempts[o].created /\ attempts[o].answer = keys[j]
        BY <3>1 DEF RegInv, KeysExplained
      <3>3. attempts'[o] = attempts[o]
        BY <1>1, <1>5, <3>2 DEF At
      <3> QED BY <3>1, <3>2, <3>3 DEF At
    <2> QED BY <2>1, <2>2
  <1> QED BY <1>8, <1>9, <1>10, <1>12, <1>13 DEF RegInv

\* Another request changes a row and keeps its name.
LEMMA OthersKeepReg ==
    ASSUME RegInv, Attempt = ServiceID, Others
    PROVE  RegInv'
  <1>1. PICK now \in Time, c \in MutateCommand : Mutate(c, now)
    BY DEF Others
  <1> DEFINE i == c.id
             row == Applied(services[i], c, now)
  <1>2. i \in ServiceID /\ now \in Nat
    BY AttemptAssumption DEF MutateCommand, OwnershipCommand, LifecycleCommand, RetireCommand
  <1>3. services[i] \in Service /\ services[i] # Null /\ services' = [services EXCEPT ![i] = row]
    BY <1>1, <1>2, RegInvAt DEF Mutate
  <1>4. row \in Service /\ row.name = services[i].name
    BY <1>2, <1>3, AppliedRow
  <1> HIDE DEF row, i
  <1>5. /\ services' \in [ServiceID -> Service \cup {Null}] /\ row # Null
        /\ \A s \in ServiceID : services'[s] = IF s = i THEN row ELSE services[s]
    BY <1>2, <1>3, <1>4, RegInvAt, NullAssumption
  <1>6. UNCHANGED <<bodies, keys, attempts>>
    BY DEF Others
  <1>7. TypeOK' /\ services' \in [ServiceID -> Service \cup {Null}]
    BY <1>5, <1>6, RegInvAt DEF TypeOK
  <1>8. RowsAreCreated'
    BY <1>2, <1>3, <1>4, <1>5, <1>6 DEF RegInv, RowsAreCreated, Sent, At
  <1>9. NamesDiffer'
    BY <1>2, <1>3, <1>4, <1>5 DEF RegInv, NamesDiffer
  <1>10. AnswersExplained' /\ KeysExplained'
    BY <1>6 DEF RegInv, AnswersExplained, KeysExplained, Sent, At
  <1> QED BY <1>7, <1>8, <1>9, <1>10 DEF RegInv

\* RegInv is inductive.
THEOREM RegInductive ==
    /\ RegInit => RegInv
    /\ RegInv /\ [RegNext]_regVars => RegInv'
  <1>0. Attempt = ServiceID /\ NullIsNoAnswer
    BY AttemptAssumption, AnswerAssumption
  <1> USE <1>0
  <1>1. RegInit => RegInv
    <2> SUFFICES ASSUME RegInit PROVE RegInv
      OBVIOUS
    <2>1. /\ services = [s \in ServiceID |-> Null] /\ bodies = [k \in Key |-> Null]
          /\ keys = [k \in Key |-> Null] /\ attempts = [a \in Attempt |-> Unsent]
      BY DEF RegInit, Init
    <2>2. \A a \in Attempt : attempts[a].pc = "unsent" /\ ~ Sent(a)
      BY <2>1, ZenonT(60) DEF Unsent, Sent, At
    <2> QED BY <2>1, <2>2 DEF RegInv, TypeOK, RowsAreCreated, NamesDiffer,
                              AnswersExplained, KeysExplained
  <1>2. ASSUME RegInv, [RegNext]_regVars PROVE RegInv'
    <2>0. TypeOK /\ Null \notin CreatedResponse
      BY <1>2, RegInvAt DEF NullIsNoAnswer
    <2>1. ASSUME NEW a \in Attempt, Sent(a), ~ At(a, "done"),
                 NEW r \in CreatedResponse \cup {Conflict, Failed, Null}, Respond(a, r),
                 r \in CreatedResponse => r = keys[attempts[a].key],
                 UNCHANGED <<services, bodies, keys>>
          PROVE  RegInv'
      <3> DEFINE x == [pc |-> "done", key |-> attempts[a].key, created |-> attempts[a].created, answer |-> r]
      <3>0. attempts' = [attempts EXCEPT ![a].pc = "done", ![a].answer = r]
        BY <2>1 DEF Respond
      <3>1. attempts[a].key \in Key /\ attempts[a].created \in BOOLEAN
        BY <2>0, <2>1, SentFields
      <3>2. attempts' = [attempts EXCEPT ![a] = x]
        BY <2>0, <2>1, <3>0, SentAnswer, ZenonT(60)
      <3>3. /\ x \in Handler /\ x.pc = "done" /\ x.key = attempts[a].key
            /\ x.created = attempts[a].created /\ x.answer = r
        BY <3>1 DEF Handler
      <3> HIDE DEF x
      <3> QED BY <1>2, <2>1, <3>2, <3>3, AnswerKeepsReg, ZenonT(60)
    <2>2. ASSUME NEW a \in Attempt, Lookup(a) PROVE RegInv'
      <3> DEFINE saved == keys[attempts[a].key]
      <3>1. Sent(a) /\ ~ At(a, "done") /\ UNCHANGED <<services, bodies, keys>>
        BY <2>2 DEF Lookup, Sent, At
      <3>2. attempts[a].key \in Key /\ attempts[a].created \in BOOLEAN
        BY <2>0, <3>1, SentFields
      <3>3. ~ attempts[a].created /\ attempts[a].answer = Null
        BY <1>2, <2>2, <3>1 DEF Lookup, RegInv, AnswersExplained, At
      <3>4. CASE saved = Null
        <4> DEFINE x == [pc |-> "register", key |-> attempts[a].key, created |-> attempts[a].created,
                         answer |-> attempts[a].answer]
        <4>1. attempts' = [attempts EXCEPT ![a].pc = "register"]
          BY <2>2, <3>4 DEF Lookup, Goto
        <4>2. attempts' = [attempts EXCEPT ![a] = x]
          BY <2>0, <3>1, <4>1, SentFields, SentGoto, ZenonT(60)
        <4>3. /\ x \in Handler /\ x.pc = "register" /\ x.key = attempts[a].key
              /\ x.created = attempts[a].created /\ x.answer = Null
          BY <3>2, <3>3 DEF Handler
        <4> HIDE DEF x
        <4> QED BY <1>2, <2>0, <3>1, <3>3, <4>2, <4>3, AnswerKeepsReg, ZenonT(60)
      <3>5. CASE saved # Null
        <4>1. Respond(a, saved)
          BY <2>2, <3>5 DEF Lookup
        <4>2. saved \in CreatedResponse
          BY <1>2, <3>2, <3>5, RegInvAt
        <4> QED BY <2>1, <3>1, <4>1, <4>2
      <3> QED BY <3>4, <3>5
    <2>3. ASSUME NEW a \in Attempt, SaveFails(a) PROVE RegInv'
      <3> DEFINE x == [pc |-> "done", key |-> attempts[a].key, created |-> attempts[a].created,
                       answer |-> attempts[a].answer]
      <3>1. /\ Sent(a) /\ ~ At(a, "done") /\ UNCHANGED <<services, bodies, keys>>
            /\ attempts' = [attempts EXCEPT ![a].pc = "done"]
        BY <2>3 DEF SaveFails, Goto, Sent, At
      <3>2. /\ attempts' = [attempts EXCEPT ![a] = x] /\ attempts[a].key \in Key
            /\ attempts[a].created \in BOOLEAN
        BY <2>0, <3>1, SentFields, SentGoto, ZenonT(60)
      <3>3. /\ attempts[a].created /\ attempts[a].answer \in CreatedResponse
            /\ attempts[a].answer.id = a
        BY <1>2, <2>3, <3>1 DEF SaveFails, RegInv, AnswersExplained, At
      <3>4. /\ x \in Handler /\ x.pc = "done" /\ x.key = attempts[a].key
            /\ x.created = attempts[a].created /\ x.answer = attempts[a].answer
        BY <3>2, <3>3 DEF Handler
      <3> HIDE DEF x
      <3>5. x.answer \in CreatedResponse => x.created /\ x.answer.id = a
        BY <3>3, <3>4, ZenonT(60)
      <3> QED BY <1>2, <3>1, <3>2, <3>4, <3>5, AnswerKeepsReg, ZenonT(60)
    <2>4. ASSUME NEW a \in Attempt, Refuse(a) \/ CallFails(a) \/ Crash(a) PROVE RegInv'
      <3>1. /\ Sent(a) /\ ~ At(a, "done") /\ UNCHANGED <<services, bodies, keys>>
        BY <2>4 DEF Refuse, CallFails, Crash, Sent, At
      <3>2. \A r \in {Conflict, Failed, Null} : r \notin CreatedResponse
        BY <2>0 DEF Conflict, Failed, CreatedResponse
      <3>3. PICK r \in {Conflict, Failed, Null} : Respond(a, r)
        BY <2>4 DEF Refuse, CallFails, Crash
      <3>4. /\ r \in CreatedResponse \cup {Conflict, Failed, Null}
            /\ r \in CreatedResponse => r = keys[attempts[a].key]
        BY <3>2, <3>3
      <3> QED BY <2>1, <3>1, <3>3, <3>4, ZenonT(60)
    <2>5. ASSUME NEW a \in Attempt, NEW now \in Time,
                 Execute(a, now) \/ ExecuteUnconfirmed(a, now)
          PROVE  RegInv'
      <3> DEFINE c == CommandOf(a)
                 row == Register(c, now)
                 b == bodies[attempts[a].key]
      <3>1. /\ At(a, "register") /\ Sent(a) /\ RegisterService(c, now)
            /\ UNCHANGED <<bodies, keys>>
        BY <2>5 DEF Execute, ExecuteUnconfirmed, Sent, At
      <3>2. attempts[a].key \in Key /\ attempts[a].created \in BOOLEAN
        BY <2>0, <3>1, SentFields
      <3>3. b \in [name : Name, ownership : Ownership]
        BY <1>2, <3>1, <3>2, RegInvAt, ZenonT(60) DEF RegInv, RowsAreCreated, Body
      <3>4. c \in RegisterCommand /\ c.id = a /\ c.name = b.name
        BY <3>3 DEF CommandOf, RegisterCommand
      <3>5. now \in Nat
        BY AttemptAssumption
      <3> HIDE DEF c, b
      <3>6. row \in Service /\ row.name = b.name
        BY <3>4, <3>5, RegisterRow
      <3>7. /\ services' = [services EXCEPT ![a] = row]
            /\ \A s \in ServiceID : services[s] # Null => services[s].name # row.name
        BY <3>1, <3>4, <3>6, ZenonT(60) DEF RegisterService
      <3>8. PICK at \in {"save", "done"}, r \in {Created(a, row), Failed} :
                /\ Committed(a, at, r)
                /\ (at = "save" /\ r = Created(a, row)) \/ (at = "done" /\ r = Failed)
        BY <2>5 DEF Execute, ExecuteUnconfirmed, c
      <3>9. Created(a, row) \in CreatedResponse /\ Created(a, row).id = a
        BY <3>6 DEF Created, CreatedResponse
      <3> HIDE DEF row
      <3>10. r \in CreatedResponse \cup {Failed}
        BY <3>8, <3>9
      <3>11. PICK x \in Handler : Became(a, x, at, r)
        BY <2>0, <3>1, <3>8, <3>10, SentCreated, ZenonT(60)
      <3>12. \/ x.pc = "save" /\ x.answer \in CreatedResponse /\ x.answer.id = a
             \/ x.pc = "done" /\ x.answer = Failed
        BY <3>8, <3>9, <3>11 DEF Became
      <3>13. row.name = bodies[attempts[a].key].name
        BY <3>6 DEF b
      <3> QED BY <1>2, <3>1, <3>6, <3>7, <3>11, <3>12, <3>13, ExecuteKeepsReg, ZenonT(60) DEF Became
    <2>6. CASE UNCHANGED regVars
      <3>1. services' \in [ServiceID -> Service \cup {Null}] /\ TypeOK'
        BY <1>2, <2>6 DEF regVars, RegInv, TypeOK
      <3>2. RowsAreCreated' /\ NamesDiffer'
        BY <1>2, <2>6 DEF regVars, RegInv, RowsAreCreated, NamesDiffer, Sent, At
      <3>3. AnswersExplained' /\ KeysExplained'
        BY <1>2, <2>6 DEF regVars, RegInv, AnswersExplained, KeysExplained, Sent, At
      <3> QED BY <3>1, <3>2, <3>3, ZenonT(60) DEF RegInv
    <2> QED BY <1>2, <2>2, <2>3, <2>4, <2>5, <2>6, SendKeepsReg, SaveKeepsReg, OthersKeepReg DEF RegNext
  <1> QED BY <1>1, <1>2

\* RegInv holds in every reachable state.
LEMMA RegAlways ==
    RegSpec => []RegInv
  BY RegInductive, PTL DEF RegSpec

\* Two attempts of a key that created their service would have created it under one name.
LEMMA OnceFromInv ==
    ASSUME Attempt = ServiceID, RegInv
    PROVE  RegisteredOnce
  <1> SUFFICES ASSUME NEW a \in Attempt, NEW b \in Attempt, Sent(a), Sent(b),
                      attempts[a].key = attempts[b].key, attempts[a].created, attempts[b].created
               PROVE  a = b
    BY DEF RegisteredOnce, SameKey, Sent
  <1>1. services[a] # Null /\ services[a].name = bodies[attempts[a].key].name
    BY DEF RegInv, RowsAreCreated
  <1>2. services[b] # Null /\ services[b].name = bodies[attempts[b].key].name
    BY DEF RegInv, RowsAreCreated
  <1> QED BY <1>1, <1>2, ZenonT(60) DEF RegInv, NamesDiffer

\* For any number of keys, attempts and services, however handlers interleave, crash and
\* lose answers: one service at most comes of a key (Handlers.Register).
THEOREM OneServicePerKey ==
    RegSpec => []RegisteredOnce
  <1>1. RegInv => RegisteredOnce
    BY OnceFromInv, AttemptAssumption
  <1> QED BY <1>1, RegAlways, PTL

\* Under the same conditions: the requests of a key that are answered with success get
\* one answer (Store.Lookup, Store.Save).
THEOREM OneAnswerPerKey ==
    RegSpec => []AnswersAgree
  <1>1. ASSUME RegInv PROVE AnswersAgree
    <2>1. RegisteredOnce /\ TypeOK /\ Attempt = ServiceID
      BY <1>1, OnceFromInv, RegInvAt, AttemptAssumption
    <2>2. SUFFICES ASSUME NEW a \in Attempt, NEW b \in Attempt, SameKey(a, b),
                          Answered(a, 201), Answered(b, 201)
                   PROVE  attempts[a].answer = attempts[b].answer
      BY DEF AnswersAgree
    <2>3. ASSUME NEW o \in Attempt, Sent(o), Answered(o, 201)
          PROVE  attempts[o].answer \in CreatedResponse
      <3>1. attempts[o].answer \in CreatedResponse \cup {Conflict, Failed, Null}
        BY <2>1, <2>3, SentFields
      <3> QED BY <2>3, <3>1 DEF Answered, Conflict, Failed
    <2>4. ASSUME NEW o \in Attempt, Sent(o), Answered(o, 201)
          PROVE  \/ attempts[o].created
                 \/ attempts[o].answer = keys[attempts[o].key]
      BY <1>1, <2>3, <2>4 DEF RegInv, AnswersExplained
    <2>5. ASSUME NEW o \in Attempt, NEW p \in Attempt, SameKey(o, p), attempts[o].created,
                 Answered(p, 201), attempts[p].answer = keys[attempts[p].key]
          PROVE  attempts[o].answer = attempts[p].answer
      <3> DEFINE k == attempts[p].key
                 q == keys[k].id
      <3>1. Sent(o) /\ Sent(p) /\ attempts[o].key = k /\ k \in Key
        BY <2>1, <2>5, SentFields DEF SameKey, Sent
      <3>2. keys[k] # Null
        BY <2>5 DEF Answered
      <3>3. q \in Attempt
        BY <1>1, <2>1, <3>1, <3>2, RegInvAt
      <3>4. At(q, "done") /\ attempts[q].key = k /\ attempts[q].created /\ attempts[q].answer = keys[k]
        BY <1>1, <3>1, <3>2, <3>3, ZenonT(60) DEF RegInv, KeysExplained
      <3>5. SameKey(o, q)
        BY <3>1, <3>4, ZenonT(60) DEF SameKey, Sent, At
      <3>6. o = q
        BY <2>1, <2>5, <3>3, <3>4, <3>5, ZenonT(60) DEF RegisteredOnce
      <3> QED BY <2>5, <3>4, <3>6, ZenonT(60)
    <2>6. Sent(a) /\ Sent(b) /\ attempts[a].key = attempts[b].key /\ SameKey(b, a)
      BY <2>2 DEF SameKey, Sent
    <2>7. CASE attempts[a].created /\ attempts[b].created
      BY <2>1, <2>2, <2>7 DEF RegisteredOnce
    <2>8. CASE attempts[a].answer = keys[attempts[a].key] /\ attempts[b].answer = keys[attempts[b].key]
      BY <2>6, <2>8
    <2> QED BY <2>2, <2>4, <2>5, <2>6, <2>7, <2>8
  <1> QED BY <1>1, RegAlways, PTL

-----------------------------------------------------------------------------
(* The provisioning saga.                                                  *)

\* The bookkeeping of a failed attempt: it has done its activity's work or not, or may
\* still do it later.
LEMMA FailedAttemptEffect ==
    ASSUME NEW op, NEW i, late \in SUBSET Activity, FailedAttempt(op, i)
    PROVE  /\ late' \in SUBSET Activity
           /\ late \subseteq late'
           /\ resources' \in {resources, Effect(op, i, resources)}
BY DEF FailedAttempt, RunsLate

\* The compensations a run has still to execute: the first step's ends the rollback.
LEMMA NextCompensationCases ==
    ASSUME NextCompensation
    PROVE  /\ attempt' = 0
           /\ \/ comp = 1 /\ pc' = "idle" /\ outcome' = "failed" /\ comp' = comp
              \/ comp # 1 /\ comp' = comp - 1 /\ pc' = pc /\ outcome' = outcome
BY DEF NextCompensation, Return

\* No step of the saga disturbs what a run knows midway; hence a reported success is
\* complete and a reported failure has rolled the completed steps back.
THEOREM SagaInductive ==
    SagaSpec => []SagaInv
<1>1. SagaInit => SagaInv
    BY ProvisioningAssumption
       DEF SagaInit, SagaInv, SagaTypeOK, Midway, SuccessIsComplete, ResidueExplained,
           Resource, Finalize, Activity
<1>2. SagaInv /\ [SagaNext]_sagaVars => SagaInv'
    <2> SUFFICES ASSUME SagaInv, [SagaNext]_sagaVars PROVE SagaInv'
        OBVIOUS
    <2> USE ProvisioningAssumption
    <2>1. CASE ExecuteWorkflow
        BY <2>1 DEF ExecuteWorkflow, SagaInv, SagaTypeOK, Midway, SuccessIsComplete,
                    ResidueExplained, Excused, Resource, Finalize, Activity
    <2>2. CASE StepSucceeds
        <3>1. CASE step = Finalize
            <4>1. resources' = resources \cup ({step} \cap Resource)
                BY <2>2 DEF StepSucceeds, Effect
            <4>2. 1..4 \subseteq resources \cup overtaken /\ step = 5
                BY <2>2, <3>1 DEF StepSucceeds, SagaInv, SagaTypeOK, Midway, Finalize
            <4>3. Resource \subseteq resources' \cup overtaken' /\ resources' \in SUBSET Resource
                BY <2>2, <4>1, <4>2, ZenonT(60) DEF StepSucceeds, Resource, SagaInv, SagaTypeOK
            <4> QED BY <2>2, <3>1, <4>3 DEF StepSucceeds, Return, SagaInv, SagaTypeOK, Midway,
                    SuccessIsComplete, ResidueExplained
        <3>2. CASE step # Finalize
            <4>0. {step} \cap Resource = {step}
                <5>1. step \in Resource
                    BY <3>2 DEF SagaInv, SagaTypeOK, Resource, Finalize
                <5> QED BY <5>1
            <4>1. /\ resources' = resources \cup {step} /\ step' = step + 1
                  /\ attempt' = 0 /\ pc' = "running" /\ outcome' = "none"
                  /\ UNCHANGED <<late, runs, comp, gaveUp, before, overtaken>>
                <5>1. resources' = resources \cup ({step} \cap Resource)
                    BY <2>2 DEF StepSucceeds, Effect
                <5>2. pc # "idle" => outcome = "none"
                    BY DEF SagaInv, Midway
                <5> QED BY <2>2, <3>2, <4>0, <5>1, <5>2 DEF StepSucceeds
            <4>2. step \in 1..4 /\ 1..(step - 1) \subseteq resources \cup overtaken
                BY <2>2, <3>2 DEF StepSucceeds, SagaInv, SagaTypeOK, Midway, Finalize
            <4>3. SagaTypeOK'
                BY <4>1, <4>2 DEF SagaInv, SagaTypeOK, Resource, Finalize
            <4>4. 1..(step' - 1) \subseteq resources' \cup overtaken'
                BY <4>1, <4>2
            <4>5. resources' \subseteq 1..step' \cup (before' \ 1..step') \cup overtaken'
                BY <2>2, <4>1, <4>2 DEF StepSucceeds, SagaInv, Midway
            <4> QED BY <4>1, <4>3, <4>4, <4>5
                    DEF SagaInv, Midway, SuccessIsComplete, ResidueExplained
        <3> QED BY <3>1, <3>2
    <2>3. CASE StepRetries
        <3>1. late' \in SUBSET Activity /\ resources' \in {resources, Effect("create", step, resources)}
            BY <2>3, FailedAttemptEffect DEF StepRetries, SagaInv, SagaTypeOK
        <3> QED BY <2>3, <3>1 DEF StepRetries, Effect, SagaInv, SagaTypeOK, Midway,
                    SuccessIsComplete, ResidueExplained, Excused, Resource, Finalize, Activity
    <2>4. CASE StepFails
        <3>1. late' \in SUBSET Activity /\ resources' \in {resources, Effect("create", step, resources)}
            BY <2>4, FailedAttemptEffect DEF StepFails, SagaInv, SagaTypeOK
        <3> QED BY <2>4, <3>1 DEF StepFails, Return, Effect, SagaInv, SagaTypeOK, Midway,
                    SuccessIsComplete, ResidueExplained, Excused, Resource, Finalize, Activity
    <2>5. CASE CompensationSucceeds
        <3>1. NextCompensation
            BY <2>5 DEF CompensationSucceeds
        <3> QED BY <2>5, NextCompensationCases, <3>1
                DEF CompensationSucceeds, Effect, SagaInv, SagaTypeOK, Midway,
                    SuccessIsComplete, ResidueExplained, Excused, Resource, Finalize, Activity
    <2>6. CASE CompensationRetries
        <3>1. late' \in SUBSET Activity /\ resources' \in {resources, Effect("delete", comp, resources)}
            BY <2>6, FailedAttemptEffect DEF CompensationRetries, SagaInv, SagaTypeOK
        <3> QED BY <2>6, <3>1 DEF CompensationRetries, Effect, SagaInv, SagaTypeOK, Midway,
                    SuccessIsComplete, ResidueExplained, Excused, Resource, Finalize, Activity
    <2>7. CASE CompensationFails
        <3>1. late' \in SUBSET Activity /\ resources' \in {resources, Effect("delete", comp, resources)}
            BY <2>7, FailedAttemptEffect DEF CompensationFails, SagaInv, SagaTypeOK
        <3>2. NextCompensation
            BY <2>7 DEF CompensationFails
        <3> QED BY <2>7, <3>1, NextCompensationCases, <3>2
                DEF CompensationFails, Effect, SagaInv, SagaTypeOK, Midway,
                    SuccessIsComplete, ResidueExplained, Excused, Resource, Finalize, Activity
    <2>8. CASE Cancel
        <3>1. late' \in SUBSET Activity
            BY <2>8 DEF Cancel, RunsLate, SagaInv, SagaTypeOK
        <3>2. CASE pc = "running"
            BY <2>8, <3>1, <3>2 DEF Cancel, Return, SagaInv, SagaTypeOK, Midway,
               SuccessIsComplete, ResidueExplained, Excused, Resource, Finalize
        <3>3. CASE pc = "compensating"
            BY <2>8, <3>1, <3>3 DEF Cancel, Return, SagaInv, SagaTypeOK, Midway,
               SuccessIsComplete, ResidueExplained, Excused, Resource, Finalize
        <3> QED BY <2>8, <3>2, <3>3 DEF Cancel, SagaInv, SagaTypeOK
    <2>9. ASSUME NEW a \in Activity, LateAttempt(a) PROVE SagaInv'
        <3>1. /\ a.of \in Resource
              /\ late' \in SUBSET Activity
              /\ resources' \subseteq resources \cup {a.of}
              /\ resources \subseteq resources' \cup {a.of}
              /\ overtaken' = overtaken \cup {a.of}
              /\ UNCHANGED <<runs, pc, step, comp, attempt, gaveUp, before, outcome>>
            BY <2>9 DEF LateAttempt, Effect, Activity, SagaInv, SagaTypeOK
        <3> QED BY <3>1 DEF SagaInv, SagaTypeOK, Midway, SuccessIsComplete, ResidueExplained, Excused
    <2>10. CASE UNCHANGED sagaVars
        BY <2>10 DEF sagaVars, SagaInv, SagaTypeOK, Midway, SuccessIsComplete,
                     ResidueExplained, Excused, Resource, Activity
    <2> QED
        BY <2>1, <2>2, <2>3, <2>4, <2>5, <2>6, <2>7, <2>8, <2>9, <2>10
           DEF SagaNext, Workflow
<1> QED
    BY <1>1, <1>2, PTL DEF SagaSpec

\* A workflow that reports success leaves the whole environment in place, but for what
\* an attempt that outlived its timeout takes away.
THEOREM SuccessComplete ==
    SagaSpec => []SuccessIsComplete
<1>1. SagaInv => SuccessIsComplete
    BY DEF SagaInv
<1> QED
    BY <1>1, SagaInductive, PTL

\* A workflow that reports failure has rolled back every completed step, except where
\* the compensation itself failed for good or a late attempt interfered.
THEOREM FailureRolledBack ==
    SagaSpec => []ResidueExplained
<1>1. SagaInv => ResidueExplained
    BY DEF SagaInv
<1> QED
    BY <1>1, SagaInductive, PTL

\* Completed steps are rolled back in reverse order.
THEOREM ReverseOrder ==
    SagaSpec => RolledBackInReverse
<1>1. SagaInv /\ [SagaNext]_sagaVars => [InReverse]_sagaVars
    <2> SUFFICES ASSUME SagaInv, SagaNext PROVE InReverse
        OBVIOUS
    <2>1. CASE pc = "compensating" /\ resources' \in {resources, Effect("delete", comp, resources)}
        BY <2>1 DEF SagaInv, SagaTypeOK, Midway, Effect, InReverse, Resource, Excused
    <2>2. CASE resources \subseteq resources'
        BY <2>2 DEF InReverse
    <2>3. CASE StepRetries \/ StepFails
        <3>1. resources' \in {resources, Effect("create", step, resources)}
            BY <2>3, FailedAttemptEffect DEF StepRetries, StepFails, SagaInv, SagaTypeOK
        <3> QED BY <3>1, <2>2 DEF Effect
    <2>4. CASE CompensationRetries \/ CompensationFails
        <3>1. resources' \in {resources, Effect("delete", comp, resources)}
            BY <2>4, FailedAttemptEffect DEF CompensationRetries, CompensationFails, SagaInv, SagaTypeOK
        <3> QED BY <2>4, <3>1, <2>1 DEF CompensationRetries, CompensationFails
    <2>5. CASE CompensationSucceeds
        BY <2>5, <2>1 DEF CompensationSucceeds
    <2>6. CASE ExecuteWorkflow \/ StepSucceeds
        BY <2>6, <2>2 DEF ExecuteWorkflow, StepSucceeds, Effect
    <2>7. CASE Cancel
        BY <2>7, <2>2 DEF Cancel
    <2>8. ASSUME NEW a \in Activity, LateAttempt(a) PROVE InReverse
        BY <2>8 DEF LateAttempt, InReverse
    <2> QED
        BY <2>3, <2>4, <2>5, <2>6, <2>7, <2>8 DEF SagaNext, Workflow
<1> QED
    BY <1>1, SagaInductive, PTL DEF SagaSpec, RolledBackInReverse
=============================================================================
