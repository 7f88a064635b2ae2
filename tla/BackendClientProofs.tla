------------------------ MODULE BackendClientProofs ------------------------
(***************************************************************************)
(* The response bodies and the metrics of the backend client, for any      *)
(* number of goroutines, of calls and of statuses a backend may answer.    *)
(***************************************************************************)
EXTENDS BackendClient, TLAPS

Stages == {"build request", "do", "read body"}

(* The errors fetchClient returns. *)
Errors == {NoError} \cup [stage : Stages, cause : Causes, url : SUBSET Words]

(* The errors that DeadlinesAreTimeouts wants in the timeout class. *)
Timely(e) == e.cause \in TimedOut \/ e.url \cap TimeoutWords # {}

Types ==
  /\ TypeOK
  /\ kind \in [Callers -> {"raw", "stream"}] /\ err \in [Callers -> Errors]
  /\ observed \in Nat /\ clock \in Nat /\ causes \in [Causes -> Nat]
  /\ named \in Nat /\ now \in [Callers -> Nat]

(* A call has neither a body nor an error before its response, and an      *)
(* error class is counted only for a call that failed.                     *)
CallInv ==
  \A c \in Callers :
    /\ pc[c] = "do" => body[c] = "none"
    /\ pc[c] \in {"do", "read"} => err[c] = NoError
    /\ pc[c] = "class" => Failed(c)

(* The inductive invariant. *)
BackendInv ==
  Types /\ CallInv /\ BodiesClosed /\ CallsAccounted /\ DeadlinesAreTimeouts

Turn(c) ==
  \/ \E k \in {"raw", "stream"} : Call(c, k)
  \/ \E st \in Status : Response(c, st)
  \/ NoResponse(c) \/ ReadRaw(c) \/ ReturnStream(c) \/ CloseStream(c)
  \/ ObserveBackendRequest(c) \/ IncBackendRequest(c) \/ IncBackendError(c)
  \/ ReadClock(c) \/ SetBackendLastSuccess(c)

(* The causes, and the fields of an error. *)
LEMMA ErrorFields ==
  /\ Causes = {"deadline", "lookup", "etimedout", "cutoff", "malformed", "other"}
  /\ NoError \in Errors /\ NoError.cause = "none"
  /\ \A s \in Stages, k \in Causes, u \in SUBSET Words :
       /\ [stage |-> s, cause |-> k, url |-> u] \in Errors \ {NoError}
       /\ [stage |-> s, cause |-> k, url |-> u].cause = k
       /\ [stage |-> s, cause |-> k, url |-> u].url = u
  /\ \A e \in Errors \ {NoError} :
       e.stage \in Stages /\ e.cause \in Causes /\ e.url \in SUBSET Words
<1>1. Causes = {"deadline", "lookup", "etimedout", "cutoff", "malformed", "other"}
  BY Zenon DEF Causes, CauseText
<1>2. NoError \in Errors /\ NoError.cause = "none"
  BY Zenon DEF NoError, Errors
<1>3. \A e \in Errors \ {NoError} :
        e.stage \in Stages /\ e.cause \in Causes /\ e.url \in SUBSET Words
  BY Zenon DEF Errors
<1>4. ASSUME NEW s \in Stages, NEW k \in Causes, NEW u \in SUBSET Words
      PROVE  /\ [stage |-> s, cause |-> k, url |-> u] \in Errors \ {NoError}
             /\ [stage |-> s, cause |-> k, url |-> u].cause = k
             /\ [stage |-> s, cause |-> k, url |-> u].url = u
  <2> DEFINE e == [stage |-> s, cause |-> k, url |-> u]
  <2>1. e.cause = k /\ e.url = u
    BY Zenon
  <2>2. e \in [stage : Stages, cause : Causes, url : SUBSET Words]
    BY Zenon
  <2>3. k # "none"
    BY <1>1
  <2> QED
    BY <1>2, <2>1, <2>2, <2>3, Zenon DEF Errors
<1> QED
  BY <1>1, <1>2, <1>3, <1>4, Zenon

(* What errors.Is and the text say of an error: a deadline and a lookup    *)
(* name themselves, a URL speaks for itself, and no stage reads like a     *)
(* timeout.                                                                *)
LEMMA TimelyClass ==
  ASSUME NEW e \in Errors \ {NoError}
  PROVE  /\ classifyTransportError(e) \in Classes
         /\ classifyTransportError(e) = "timeout" <=> Timely(e)
<1>1. e.stage \in Stages /\ e.cause \in Causes
  BY ErrorFields, Zenon
<1>2. e.stage \notin TimeoutWords
  BY <1>1 DEF Stages, TimeoutWords
<1>3. CauseText[e.cause] \cap TimeoutWords # {} <=> e.cause \in TimedOut
  <2>1. /\ CauseText["deadline"] = {"deadline exceeded"}
        /\ CauseText["lookup"] = {"timeout"} /\ CauseText["etimedout"] = {}
        /\ CauseText["cutoff"] = {"unexpected eof"}
        /\ CauseText["malformed"] = {"malformed"} /\ CauseText["other"] = {}
    BY DEF CauseText
  <2>2. /\ CauseText["deadline"] \cap TimeoutWords # {}
        /\ CauseText["lookup"] \cap TimeoutWords # {}
        /\ \A k \in {"etimedout", "cutoff", "malformed", "other"} :
             CauseText[k] \cap TimeoutWords = {} /\ k \notin TimedOut
        /\ "deadline" \in TimedOut /\ "lookup" \in TimedOut
    BY <2>1 DEF TimeoutWords, TimedOut
  <2>3. \/ e.cause \in {"deadline", "lookup"}
        \/ e.cause \in {"etimedout", "cutoff", "malformed", "other"}
    BY <1>1, ErrorFields, Zenon
  <2> QED
    BY <2>2, <2>3, Zenon
<1>4. Text(e) \cap TimeoutWords # {} <=> Timely(e)
  BY <1>2, <1>3, Zenon DEF Text, Timely
<1> QED
  BY <1>4, Zenon DEF classifyTransportError, Classes, Timely, TimedOut

(* A call that fails has one error of its own and one cause counted, and   *)
(* is named if only its URL reads like a timeout.                          *)
FailsWith(c, e) ==
  /\ err' = [err EXCEPT ![c] = e]
  /\ causes' = [causes EXCEPT ![e.cause] = @ + 1]
  /\ named' = IF e.cause \notin TimedOut /\ e.url \cap TimeoutWords # {}
              THEN named + 1 ELSE named

(* A call without a response, or with its body read, returns no error or   *)
(* one of fetchClient's.                                                   *)
LEMMA Outcome ==
  ASSUME NEW c \in Callers, NoResponse(c) \/ ReadRaw(c)
  PROVE  \/ ReadRaw(c) /\ UNCHANGED <<err, causes, named>>
         \/ \E e \in Errors \ {NoError} : FailsWith(c, e)
<1>1. ASSUME NEW s \in Stages, NEW k \in Causes, NEW u \in SUBSET Words,
             Fails(c, s, k, u)
      PROVE  \E e \in Errors \ {NoError} : FailsWith(c, e)
  <2> DEFINE e == [stage |-> s, cause |-> k, url |-> u]
  <2>1. e \in Errors \ {NoError} /\ e.cause = k /\ e.url = u
    BY ErrorFields, Zenon
  <2>2. /\ err' = [err EXCEPT ![c] = e] /\ causes' = [causes EXCEPT ![k] = @ + 1]
        /\ named' = IF k \notin TimedOut /\ u \cap TimeoutWords # {}
                    THEN named + 1 ELSE named
    BY <1>1, Zenon DEF Fails
  <2> HIDE DEF e
  <2> QED
    BY <2>1, <2>2, Zenon DEF FailsWith
<1>2. /\ "other" \in Causes /\ {} \in SUBSET Words /\ Urls \subseteq SUBSET Words
      /\ "build request" \in Stages /\ "do" \in Stages /\ "read body" \in Stages
  BY ErrorFields, BackendAssumption, Zenon DEF Stages
<1> QED
  BY <1>1, <1>2, Zenon DEF NoResponse, ReadRaw, history

-----------------------------------------------------------------------------
(* Types and bodies. *)

(* Every step keeps the types. *)
LEMMA TypesStep ==
  ASSUME Types, [Next]_vars
  PROVE  Types'
<1>a. /\ clock \in Nat /\ lastSuccess \in 0..clock /\ now \in [Callers -> Nat]
      /\ \A c \in Callers : now[c] \in 0..clock
  BY Zenon DEF Types, TypeOK
<1>1. ASSUME NEW c \in Callers, NEW k \in {"raw", "stream"}, Call(c, k) PROVE Types'
  BY <1>1, <1>a, ErrorFields, Zenon DEF Call, Step, Types, TypeOK, metricVars, history
<1>2. ASSUME NEW c \in Callers, NEW st \in Status, Response(c, st) PROVE Types'
  BY <1>2, <1>a, Zenon DEF Response, Step, Types, TypeOK, metricVars, history
<1>3. ASSUME NEW c \in Callers, NoResponse(c) \/ ReadRaw(c) PROVE Types'
  <2>1. /\ err' \in [Callers -> Errors] /\ causes' \in [Causes -> Nat]
        /\ named' \in Nat
    <3>1. ASSUME NEW e \in Errors \ {NoError}, FailsWith(c, e)
          PROVE  /\ err' \in [Callers -> Errors] /\ causes' \in [Causes -> Nat]
                 /\ named' \in Nat
      <4>1. e.cause \in Causes
        BY ErrorFields, Zenon
      <4> QED
        BY <3>1, <4>1 DEF Types, FailsWith
    <3> QED
      BY <1>3, <3>1, Outcome, Zenon DEF Types
  <2> QED
    BY <1>3, <1>a, <2>1, Zenon DEF NoResponse, ReadRaw, Step, Types, TypeOK, metricVars
<1>4. ASSUME NEW c \in Callers, ReturnStream(c) \/ CloseStream(c) PROVE Types'
  BY <1>4, <1>a DEF ReturnStream, CloseStream, Step, Types, TypeOK, metricVars, history
<1>5. ASSUME NEW c \in Callers, ObserveBackendRequest(c) \/ IncBackendRequest(c)
      PROVE  Types'
  BY <1>5, <1>a DEF ObserveBackendRequest, IncBackendRequest, Step, Types, TypeOK, history
<1>6. ASSUME NEW c \in Callers, IncBackendError(c) PROVE Types'
  <2>1. errorClass(c) \in Classes
    BY TimelyClass, Zenon DEF errorClass, Classes, Types
  <2> QED
    BY <1>6, <1>a, <2>1 DEF IncBackendError, Step, Types, TypeOK, history
<1>7. ASSUME NEW c \in Callers, ReadClock(c) \/ SetBackendLastSuccess(c) PROVE Types'
  BY <1>7, <1>a DEF ReadClock, SetBackendLastSuccess, Step, Types, TypeOK, metricVars, history
<1>8. CASE UNCHANGED vars
  BY <1>8, Zenon DEF vars, callVars, metricVars, history, Types, TypeOK
<1> QED
  BY <1>1, <1>2, <1>3, <1>4, <1>5, <1>6, <1>7, <1>8 DEF Next

(* Every step keeps CallInv and BodiesClosed: DoRaw and DoStream close     *)
(* what they do not hand over, on every path.                              *)
LEMMA BodiesStep ==
  ASSUME Types, CallInv, BodiesClosed, [Next]_vars
  PROVE  CallInv' /\ BodiesClosed'
<1>a. /\ pc \in [Callers -> {"idle", "do", "read", "observe", "count", "class", "now",
                             "success"}]
      /\ DOMAIN kind = Callers /\ DOMAIN status = Callers /\ DOMAIN err = Callers
      /\ DOMAIN body = Callers
  BY Zenon DEF Types, TypeOK
<1>1. ASSUME NEW c \in Callers, Turn(c) PROVE CallInv' /\ BodiesClosed'
  <2>1. CASE \E k \in {"raw", "stream"} : Call(c, k)
    BY <1>a, <2>1 DEF Call, Step, CallInv, BodiesClosed, Failed, TwoHundred
  <2>2. CASE \E st \in Status : Response(c, st)
    BY <1>a, <2>2 DEF Response, Step, CallInv, BodiesClosed, Failed, TwoHundred
  <2>3. CASE NoResponse(c) \/ ReadRaw(c)
    <3>1. \A o \in Callers \ {c} : err'[o] = err[o]
      <4>1. ASSUME NEW e, FailsWith(c, e)
            PROVE  \A o \in Callers \ {c} : err'[o] = err[o]
        BY <1>a, <4>1, Zenon DEF FailsWith
      <4> QED
        BY <2>3, <4>1, Outcome, Zenon
    <3>2. /\ pc'[c] = "observe" /\ body'[c] \in {"none", "closed"} /\ status' = status
          /\ \A o \in Callers \ {c} : pc'[o] = pc[o] /\ body'[o] = body[o]
          /\ kind' = kind
      BY <1>a, <2>3, Zenon DEF NoResponse, ReadRaw, Step, CallInv
    <3> QED
      BY <3>1, <3>2 DEF CallInv, BodiesClosed, Failed, TwoHundred
  <2>4. CASE ReturnStream(c) \/ CloseStream(c)
    BY <1>a, <2>4
       DEF ReturnStream, CloseStream, Step, CallInv, BodiesClosed, Failed, TwoHundred
  <2>5. CASE \/ ObserveBackendRequest(c) \/ IncBackendRequest(c) \/ IncBackendError(c)
             \/ ReadClock(c) \/ SetBackendLastSuccess(c)
    BY <1>a, <2>5
       DEF ObserveBackendRequest, IncBackendRequest, IncBackendError, ReadClock,
           SetBackendLastSuccess, Step, CallInv, BodiesClosed, Failed, TwoHundred
  <2> QED
    BY <1>1, <2>1, <2>2, <2>3, <2>4, <2>5, Zenon DEF Turn
<1>2. CASE UNCHANGED vars
  BY <1>2 DEF vars, callVars, CallInv, BodiesClosed, Failed, TwoHundred
<1> QED
  BY <1>1, <1>2, Zenon DEF Next, Turn

-----------------------------------------------------------------------------
(* The metrics. *)

(* The calls that belong to the timeout class and are not yet counted in   *)
(* it, and those that have returned.                                       *)
Late(c) == c \in Unclassed /\ Timely(err[c])
timely == causes["deadline"] + causes["lookup"] + named

(* What one step does to the counters and to the places between them. *)
Quiet(c) ==
  /\ UNCHANGED <<observed, requests, errors, clock>>
  /\ pc[c] \notin {"count", "class", "now"} /\ pc'[c] \notin {"count", "class", "now"}
  /\ \/ timely' = timely /\ (Late(c)' <=> Late(c))
     \/ timely' = timely + 1 /\ ~ Late(c) /\ Late(c)'

Observes(c) ==
  /\ pc[c] = "observe" /\ pc'[c] = "count" /\ observed' = observed + 1
  /\ UNCHANGED <<requests, errors, clock, timely>> /\ (Late(c)' <=> Late(c))

Counts(c) ==
  /\ pc[c] = "count" /\ UNCHANGED <<observed, errors, clock, timely>>
  /\ \/ /\ pc'[c] = "class" /\ (Late(c)' <=> Late(c))
        /\ requests'["error"] = requests["error"] + 1 /\ requests'["ok"] = requests["ok"]
     \/ /\ pc'[c] = "now" /\ ~ Late(c)' /\ ~ Late(c)
        /\ requests'["ok"] = requests["ok"] + 1 /\ requests'["error"] = requests["error"]

Classified(c) ==
  /\ pc[c] = "class" /\ pc'[c] = "idle" /\ UNCHANGED <<observed, requests, clock, timely>>
  /\ \E k \in Classes :
       /\ errors' = [errors EXCEPT ![k] = @ + 1]
       /\ (Late(c) <=> k = "timeout") /\ ~ Late(c)'

Stamped(c) ==
  /\ pc[c] = "now" /\ pc'[c] = "success" /\ clock' = clock + 1
  /\ UNCHANGED <<observed, requests, errors, timely>> /\ ~ Late(c) /\ ~ Late(c)'

(* Every step is one of them, and of one caller. *)
LEMMA Metered ==
  ASSUME Types, CallInv, NEW c \in Callers, Turn(c)
  PROVE  /\ \A o \in Callers \ {c} : pc'[o] = pc[o] /\ (Late(o)' <=> Late(o))
         /\ Quiet(c) \/ Observes(c) \/ Counts(c) \/ Classified(c) \/ Stamped(c)
<1>a. /\ DOMAIN pc = Callers /\ DOMAIN err = Callers /\ DOMAIN causes = Causes
      /\ requests \in [{"ok", "error"} -> Nat] /\ causes \in [Causes -> Nat]
      /\ err[c] \in Errors /\ named \in Nat
  BY DEF Types, TypeOK
<1>b. \A o \in Callers : Late(o) <=> /\ pc[o] \in {"observe", "count", "class"}
                                      /\ err[o] # NoError /\ Timely(err[o])
  BY Zenon DEF Late, Unclassed
<1>c. \A o \in Callers : Late(o)' <=> /\ pc'[o] \in {"observe", "count", "class"}
                                       /\ err'[o] # NoError /\ Timely(err'[o])
  BY Zenon DEF Late, Unclassed, Timely
<1>d. UNCHANGED history => timely' = timely
  BY Zenon DEF history, timely
<1>1. CASE (\E k \in {"raw", "stream"} : Call(c, k)) \/ (\E st \in Status : Response(c, st))
  BY <1>1, <1>a, <1>b, <1>c, <1>d, Zenon DEF Call, Response, Step, metricVars, Quiet
<1>2. CASE NoResponse(c) \/ ReadRaw(c)
  <2>1. /\ pc[c] \in {"do", "read"} /\ pc'[c] = "observe" /\ ~ Late(c)
        /\ UNCHANGED <<observed, requests, errors, clock>>
        /\ \A o \in Callers \ {c} : pc'[o] = pc[o]
    BY <1>2, <1>a, <1>b, Zenon DEF NoResponse, ReadRaw, Step, metricVars
  <2>2. ASSUME UNCHANGED <<err, causes, named>>
        PROVE  Quiet(c) /\ \A o \in Callers \ {c} : Late(o)' <=> Late(o)
    <3>1. err'[c] = NoError
      BY <2>1, <2>2, Zenon DEF CallInv
    <3> QED
      BY <2>1, <2>2, <3>1, <1>b, <1>c, Zenon DEF Quiet, timely
  <2>3. ASSUME NEW e \in Errors \ {NoError}, FailsWith(c, e)
        PROVE  Quiet(c) /\ \A o \in Callers \ {c} : Late(o)' <=> Late(o)
    <3>1. /\ \A o \in Callers \ {c} : err'[o] = err[o]
          /\ err'[c] = e /\ e.cause \in Causes
      BY <2>3, <1>a, ErrorFields, Zenon DEF FailsWith
    <3>2. timely' = IF Timely(e) THEN timely + 1 ELSE timely
      <4>1. /\ causes["deadline"] \in Nat /\ causes["lookup"] \in Nat
            /\ causes'["deadline"] = IF e.cause = "deadline" THEN causes["deadline"] + 1
                                     ELSE causes["deadline"]
            /\ causes'["lookup"] = IF e.cause = "lookup" THEN causes["lookup"] + 1
                                   ELSE causes["lookup"]
        BY <2>3, <3>1, <1>a, ErrorFields, Zenon DEF FailsWith
      <4>2. /\ Timely(e) <=> e.cause \in TimedOut \/ e.url \cap TimeoutWords # {}
            /\ e.cause \in TimedOut <=> e.cause = "deadline" \/ e.cause = "lookup"
        BY Zenon DEF Timely, TimedOut
      <4>3. named' = IF e.cause \notin TimedOut /\ e.url \cap TimeoutWords # {}
                     THEN named + 1 ELSE named
        BY <2>3, Zenon DEF FailsWith
      <4> QED
        BY <1>a, <4>1, <4>2, <4>3, SMTT(30) DEF timely
    <3> QED
      BY <2>1, <3>1, <3>2, <1>b, <1>c, Zenon DEF Quiet
  <2> QED
    BY <1>2, <2>1, <2>2, <2>3, Outcome, Zenon
<1>3. CASE ReturnStream(c)
  <2>1. err[c] = NoError
    BY <1>3, Zenon DEF ReturnStream, Step, CallInv
  <2> QED
    BY <1>3, <1>a, <1>b, <1>c, <2>1, Zenon DEF ReturnStream, Step, metricVars, Quiet, timely
<1>4. CASE CloseStream(c) \/ SetBackendLastSuccess(c)
  BY <1>4, <1>a, <1>b, <1>c, <1>d, Zenon
     DEF CloseStream, SetBackendLastSuccess, Step, metricVars, Quiet
<1>5. CASE ObserveBackendRequest(c)
  BY <1>5, <1>a, <1>b, <1>c, <1>d, Zenon DEF ObserveBackendRequest, Step, Observes
<1>6. CASE IncBackendRequest(c)
  BY <1>6, <1>a, <1>b, <1>c, <1>d, Zenon DEF IncBackendRequest, Step, Counts, Failed
<1>7. CASE IncBackendError(c)
  <2>1. /\ errorClass(c) \in Classes
        /\ err[c] # NoError /\ Timely(err[c]) <=> errorClass(c) = "timeout"
    BY <1>a, TimelyClass, Zenon DEF errorClass, Classes
  <2> QED
    BY <1>7, <1>a, <1>b, <1>c, <1>d, <2>1, Zenon DEF IncBackendError, Step, Classified
<1>8. CASE ReadClock(c)
  BY <1>8, <1>a, <1>b, <1>c, <1>d, Zenon DEF ReadClock, Step, metricVars, Stamped
<1> QED
  BY <1>1, <1>2, <1>3, <1>4, <1>5, <1>6, <1>7, <1>8, Zenon DEF Turn

(* The library's facts under a name of their own. *)
LOCAL Lib == INSTANCE FiniteSetTheorems

(* The library counts as FiniteSets does. *)
LEMMA LibCounts ==
  \A S : Cardinality(S) = Lib!Cardinality(S) /\ (IsFiniteSet(S) <=> Lib!IsFiniteSet(S))
BY DEF Cardinality, Lib!Cardinality, IsFiniteSet, Lib!IsFiniteSet

(* Two sets of callers that agree but for one differ by that one. *)
LEMMA CountMoves ==
  ASSUME NEW S \in SUBSET Callers, NEW R \in SUBSET Callers, NEW c \in Callers,
         \A o \in Callers \ {c} : o \in R <=> o \in S
  PROVE  /\ Cardinality(S) \in Nat
         /\ (c \in R <=> c \in S) => Cardinality(R) = Cardinality(S)
         /\ c \in R /\ c \notin S => Cardinality(R) = Cardinality(S) + 1
         /\ c \notin R /\ c \in S => Cardinality(R) = Cardinality(S) - 1
<1>1. IsFiniteSet(S) /\ Cardinality(S) \in Nat
  BY BackendAssumption, LibCounts, Lib!FS_Subset, Lib!FS_CardinalityType
<1>2. ASSUME c \in R, c \notin S PROVE Cardinality(R) = Cardinality(S) + 1
  <2>1. R = S \cup {c}
    BY <1>2, Zenon
  <2> QED
    BY <1>1, <1>2, <2>1, LibCounts, Lib!FS_AddElement, Zenon
<1>3. ASSUME c \notin R, c \in S PROVE Cardinality(R) = Cardinality(S) - 1
  <2>1. R = S \ {c}
    BY <1>3, Zenon
  <2> QED
    BY <1>1, <1>3, <2>1, LibCounts, Lib!FS_RemoveElement, Zenon
<1>4. ASSUME c \in R <=> c \in S PROVE R = S
  BY <1>4
<1> QED
  BY <1>1, <1>2, <1>3, <1>4, Zenon

(* How many callers stand at the metrics, and how many are late. *)
counting == Cardinality(At("count"))
classing == Cardinality(At("class"))
stamping == Cardinality(At("now"))
late == Cardinality({c \in Callers : Late(c)})

(* The four numbers move with the caller that moves. *)
LEMMA NumbersMove ==
  ASSUME NEW c \in Callers,
         \A o \in Callers \ {c} : pc'[o] = pc[o] /\ (Late(o)' <=> Late(o))
  PROVE  /\ counting \in Nat /\ classing \in Nat /\ stamping \in Nat /\ late \in Nat
         /\ counting' = IF pc[c] = "count" /\ pc'[c] # "count" THEN counting - 1
                        ELSE IF pc[c] # "count" /\ pc'[c] = "count" THEN counting + 1
                        ELSE counting
         /\ classing' = IF pc[c] = "class" /\ pc'[c] # "class" THEN classing - 1
                        ELSE IF pc[c] # "class" /\ pc'[c] = "class" THEN classing + 1
                        ELSE classing
         /\ stamping' = IF pc[c] = "now" /\ pc'[c] # "now" THEN stamping - 1
                        ELSE IF pc[c] # "now" /\ pc'[c] = "now" THEN stamping + 1
                        ELSE stamping
         /\ late' = IF Late(c) /\ ~ Late(c)' THEN late - 1
                    ELSE IF ~ Late(c) /\ Late(c)' THEN late + 1
                    ELSE late
<1>1. ASSUME NEW l \in {"count", "class", "now"}
      PROVE  /\ Cardinality(At(l)) \in Nat
             /\ Cardinality(At(l)') =
                  IF pc[c] = l /\ pc'[c] # l THEN Cardinality(At(l)) - 1
                  ELSE IF pc[c] # l /\ pc'[c] = l THEN Cardinality(At(l)) + 1
                  ELSE Cardinality(At(l))
  <2>1. /\ At(l) \in SUBSET Callers /\ At(l)' \in SUBSET Callers
        /\ \A o \in Callers \ {c} : o \in At(l)' <=> o \in At(l)
        /\ (c \in At(l) <=> pc[c] = l) /\ (c \in At(l)' <=> pc'[c] = l)
    BY Zenon DEF At
  <2> QED
    BY <2>1, CountMoves, Zenon
<1>2. /\ late \in Nat
      /\ late' = IF Late(c) /\ ~ Late(c)' THEN late - 1
                 ELSE IF ~ Late(c) /\ Late(c)' THEN late + 1
                 ELSE late
  <2> DEFINE T == {o \in Callers : Late(o)}
  <2>1. /\ T \in SUBSET Callers /\ T' \in SUBSET Callers
        /\ \A o \in Callers \ {c} : o \in T' <=> o \in T
        /\ (c \in T <=> Late(c)) /\ (c \in T' <=> Late(c)')
    OBVIOUS
  <2>2. late = Cardinality(T) /\ late' = Cardinality(T')
    BY Zenon DEF late
  <2> HIDE DEF T
  <2> QED
    BY <2>1, <2>2, CountMoves, Zenon
<1> QED
  BY <1>1, <1>2, Zenon DEF counting, classing, stamping

(* Every step keeps the accounts. *)
LEMMA AccountsStep ==
  ASSUME Types, CallInv, CallsAccounted, DeadlinesAreTimeouts, [Next]_vars
  PROVE  CallsAccounted' /\ DeadlinesAreTimeouts'
<1> DEFINE Accounts ==
             /\ observed = requests["ok"] + requests["error"] + counting
             /\ requests["error"] = errors["timeout"] + errors["malformed"]
                  + errors["connect"] + errors["5xx"] + classing
             /\ requests["ok"] = clock + stamping
             /\ timely = errors["timeout"] + late
<1>a. /\ Accounts <=> CallsAccounted /\ DeadlinesAreTimeouts
      /\ Accounts' <=> CallsAccounted' /\ DeadlinesAreTimeouts'
  <2>1. /\ {c \in Unclassed : Timely(err[c])} = {c \in Callers : Late(c)}
        /\ {c \in Unclassed : Timely(err[c])}' = {c \in Callers : Late(c)}'
    BY Zenon DEF Late, Unclassed, Timely
  <2> QED
    BY <2>1, Zenon DEF CallsAccounted, DeadlinesAreTimeouts, counting, classing, stamping,
                       late, timely, Timely
<1>b. /\ observed \in Nat /\ clock \in Nat /\ timely \in Nat
      /\ requests["ok"] \in Nat /\ requests["error"] \in Nat
      /\ errors \in [Classes -> Nat]
  <2>1. /\ causes["deadline"] \in Nat /\ causes["lookup"] \in Nat /\ named \in Nat
        /\ observed \in Nat /\ clock \in Nat
        /\ requests["ok"] \in Nat /\ requests["error"] \in Nat
        /\ errors \in [Classes -> Nat]
    BY ErrorFields, ZenonT(30) DEF Types, TypeOK
  <2>2. timely \in Nat
    BY <2>1, SMT DEF timely
  <2> QED
    BY <2>1, <2>2, Zenon
<1>1. ASSUME NEW c \in Callers, Turn(c) PROVE Accounts'
  <2>a. /\ \A o \in Callers \ {c} : pc'[o] = pc[o] /\ (Late(o)' <=> Late(o))
        /\ Quiet(c) \/ Observes(c) \/ Counts(c) \/ Classified(c) \/ Stamped(c)
    BY <1>1, Metered, Zenon
  <2>b. counting \in Nat /\ classing \in Nat /\ stamping \in Nat /\ late \in Nat
    BY <2>a, NumbersMove, Zenon
  <2>c. /\ errors["timeout"] \in Nat /\ errors["malformed"] \in Nat
        /\ errors["connect"] \in Nat /\ errors["5xx"] \in Nat
    BY <1>b, Zenon DEF Classes
  <2>1. CASE Quiet(c)
    <3>1. counting' = counting /\ classing' = classing /\ stamping' = stamping
      BY <2>a, <2>1, NumbersMove, Zenon DEF Quiet
    <3>2. \/ timely' = timely /\ late' = late
          \/ timely' = timely + 1 /\ late' = late + 1
      BY <2>a, <2>1, NumbersMove, Zenon DEF Quiet
    <3> QED
      BY <1>a, <1>b, <2>b, <2>c, <2>1, <3>1, <3>2, SMTT(30) DEF Quiet
  <2>2. CASE Observes(c)
    <3>1. /\ counting' = counting + 1 /\ classing' = classing /\ stamping' = stamping
          /\ late' = late
      BY <2>a, <2>2, NumbersMove, Zenon DEF Observes
    <3> QED
      BY <1>a, <1>b, <2>b, <2>c, <2>2, <3>1, SMTT(30) DEF Observes
  <2>3. CASE Counts(c)
    <3>1. /\ counting' = counting - 1 /\ late' = late
          /\ UNCHANGED <<observed, errors, clock, timely>>
      BY <2>a, <2>3, NumbersMove, Zenon DEF Counts
    <3>2. CASE pc'[c] = "class"
      <4>1. /\ classing' = classing + 1 /\ stamping' = stamping
            /\ requests'["error"] = requests["error"] + 1
            /\ requests'["ok"] = requests["ok"]
        BY <2>a, <2>3, <3>2, NumbersMove, Zenon DEF Counts
      <4> QED
        BY <1>a, <1>b, <2>b, <2>c, <3>1, <4>1, SMTT(30)
    <3>3. CASE pc'[c] = "now"
      <4>1. /\ classing' = classing /\ stamping' = stamping + 1
            /\ requests'["ok"] = requests["ok"] + 1
            /\ requests'["error"] = requests["error"]
        BY <2>a, <2>3, <3>3, NumbersMove, Zenon DEF Counts
      <4> QED
        BY <1>a, <1>b, <2>b, <2>c, <3>1, <4>1, SMTT(30)
    <3> QED
      BY <2>3, <3>2, <3>3, Zenon DEF Counts
  <2>4. CASE Classified(c)
    <3>1. PICK k \in Classes : /\ errors' = [errors EXCEPT ![k] = @ + 1]
                               /\ (Late(c) <=> k = "timeout") /\ ~ Late(c)'
      BY <2>4, Zenon DEF Classified
    <3>2. /\ counting' = counting /\ classing' = classing - 1 /\ stamping' = stamping
          /\ late' = IF k = "timeout" THEN late - 1 ELSE late
          /\ observed' = observed /\ requests' = requests /\ clock' = clock
          /\ timely' = timely
      BY <2>a, <2>4, <3>1, NumbersMove, Zenon DEF Classified
    <3>3. /\ errors'["timeout"] = errors["timeout"] + (IF k = "timeout" THEN 1 ELSE 0)
          /\ errors'["timeout"] + errors'["malformed"] + errors'["connect"] + errors'["5xx"]
               = errors["timeout"] + errors["malformed"] + errors["connect"]
                   + errors["5xx"] + 1
      BY <1>b, <2>c, <3>1, SMTT(30) DEF Classes
    <3>4. /\ errors'["timeout"] \in Nat /\ errors'["malformed"] \in Nat
          /\ errors'["connect"] \in Nat /\ errors'["5xx"] \in Nat
      BY <1>b, <2>c, <3>1, SMTT(30) DEF Classes
    <3>5. Accounts
      BY <1>a, Zenon
    <3> QED
      BY <1>b, <2>b, <2>c, <3>2, <3>3, <3>4, <3>5, SMTT(30)
  <2>5. CASE Stamped(c)
    <3>1. /\ counting' = counting /\ classing' = classing /\ stamping' = stamping - 1
          /\ late' = late
      BY <2>a, <2>5, NumbersMove, Zenon DEF Stamped
    <3> QED
      BY <1>a, <1>b, <2>b, <2>c, <2>5, <3>1, SMTT(30) DEF Stamped
  <2> QED
    BY <2>a, <2>1, <2>2, <2>3, <2>4, <2>5
<1>2. ASSUME UNCHANGED vars PROVE CallsAccounted' /\ DeadlinesAreTimeouts'
  BY <1>2 DEF vars, callVars, metricVars, history, CallsAccounted, DeadlinesAreTimeouts,
              Unclassed, At
<1> QED
  BY <1>a, <1>1, <1>2, Zenon DEF Next, Turn

-----------------------------------------------------------------------------
(* The theorems. *)

(* No call has been made. *)
LEMMA BackendInit == Init => BackendInv
<1> SUFFICES ASSUME Init PROVE BackendInv
  OBVIOUS
<1>1. Types
  <2>1. NoError \in Errors
    BY ErrorFields, Zenon
  <2> QED
    BY <2>1 DEF Init, Types, TypeOK
<1>2. CallInv /\ BodiesClosed
  BY DEF Init, CallInv, BodiesClosed
<1>3. Cardinality({}) = 0
  BY LibCounts, Lib!FS_EmptySet
<1>4. /\ \A l \in {"count", "class", "now"} : At(l) = {}
      /\ Unclassed = {}
  BY DEF Init, At, Unclassed
<1>5. CallsAccounted /\ DeadlinesAreTimeouts
  <2>1. {c \in Unclassed : Timely(err[c])} = {}
    BY <1>4, Zenon
  <2>2. /\ observed = 0 /\ clock = 0 /\ requests["ok"] = 0 /\ requests["error"] = 0
        /\ errors["timeout"] = 0 /\ errors["malformed"] = 0
        /\ errors["connect"] = 0 /\ errors["5xx"] = 0
    BY Zenon DEF Init, Classes
  <2>3. causes["deadline"] = 0 /\ causes["lookup"] = 0 /\ named = 0
    BY ErrorFields, Zenon DEF Init
  <2>4. Cardinality({c \in Unclassed : Timely(err[c])}) = 0
    BY <1>3, <2>1, Zenon
  <2>5. DeadlinesAreTimeouts
    BY <2>2, <2>3, <2>4 DEF DeadlinesAreTimeouts, Timely
  <2> QED
    BY <2>5, <1>3, <1>4, <2>2, <2>3 DEF CallsAccounted
<1> QED
  BY <1>1, <1>2, <1>5 DEF BackendInv

(* Every step of every caller keeps the invariant. *)
LEMMA BackendNext == BackendInv /\ [Next]_vars => BackendInv'
BY TypesStep, BodiesStep, AccountsStep DEF BackendInv

(* BackendInv is an invariant of the backend client. *)
THEOREM BackendInvariant == Spec => []BackendInv
BY BackendInit, BackendNext, PTL DEF Spec

(* DoRaw and DoStream leak no connection: whatever fails, the only body    *)
(* left open is the stream of a 2xx, which the caller closes.              *)
THEOREM BodiesAlwaysClosed == Spec => []BodiesClosed
BY BackendInvariant, PTL DEF BackendInv

(* recordOutcome counts every call once, with one class for every error    *)
(* and one success for every other, however the callers interleave.        *)
THEOREM CallsAlwaysAccounted == Spec => []CallsAccounted
BY BackendInvariant, PTL DEF BackendInv

(* classifyTransportError counts every deadline and every lookup that      *)
(* timed out as a timeout, before the response or in the body, once each,  *)
(* whatever URL the error quotes, and nothing else but what a URL names.   *)
THEOREM DeadlinesAlwaysTimeouts == Spec => []DeadlinesAreTimeouts
BY BackendInvariant, PTL DEF BackendInv
=============================================================================
