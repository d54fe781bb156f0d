----------------------- MODULE NominatimLookupProofs -----------------------
(***************************************************************************)
(* Proofs about a lookup at Nominatim, for any number of languages and     *)
(* streets: errors are noticed, answers are combined, and the lookup is,   *)
(* liveness aside, the source that the HTTP handler relies on.             *)
(***************************************************************************)
EXTENDS NominatimLookup, TLAPS

-----------------------------------------------------------------------------
LEMMA InitTypeOK == Init => TypeOK
<1> SUFFICES ASSUME Init PROVE TypeOK
    OBVIOUS
<1>1. todo \in [Checks -> Nat] /\ \A k \in Checks : todo[k] <= Requests(k)
    BY StreetsAssumption DEF Init, Requests, StreetsAssumption
<1> QED
    BY <1>1 DEF Init, TypeOK, AllSearching, Answer, NoAnswer, Checks

LEMMA ApiTypeOK ==
    ASSUME TypeOK, NEW k \in Checks, NEW l \in Languages, ApiCall(k, l)
    PROVE  TypeOK'
<1> PICK ok \in Outcomes : SearchCall(k, l, ok) \/ ParameterCall(k, l, ok)
    BY DEF ApiCall
<1>1. ok \in BOOLEAN
    BY DEF Outcomes
<1>2. CASE SearchCall(k, l, ok)
    BY <1>1, <1>2 DEF TypeOK, SearchCall
<1>3. CASE ParameterCall(k, l, ok)
    <2> DEFINE failed == language[k][l] = "paramAfterFail" /\ ~ok
    <2>1. /\ language' = [language EXCEPT ![k][l] = IF failed THEN "failed" ELSE "done"]
          /\ failure' = [failure EXCEPT ![k] = JoinError(k, failed)]
        BY <1>3 DEF ParameterCall
    <2>2. failure' \in [Checks -> BOOLEAN]
        BY <2>1 DEF TypeOK, JoinError
    <2>3. language' \in [Checks -> [Languages -> {"search", "param", "paramAfterFail",
                                                  "done", "failed"}]]
        BY <2>1 DEF TypeOK
    <2> QED
        BY <1>1, <1>3, <2>2, <2>3 DEF TypeOK, ParameterCall
<1> QED
    BY <1>2, <1>3

LEMMA CheckTypeOK ==
    ASSUME TypeOK, NEW k \in Checks, Check(k)
    PROVE  TypeOK'
<1>1. \A error \in BOOLEAN, match \in SUBSET Countries :
        Send(k, error, match) =>
            /\ stage' \in [Checks -> {"off", "running", "answered"}]
            /\ answer' \in [Checks -> Answer]
    BY DEF Send, TypeOK, Answer
<1>2. CASE RequestFailed(k)
    BY <1>1, <1>2 DEF TypeOK, RequestFailed
<1>3. CASE RequestDone(k)
    <2>1. todo' \in [Checks -> Nat] /\ \A c \in Checks : todo'[c] <= Requests(c)
        BY <1>3, StreetsAssumption DEF TypeOK, RequestDone, OneLess, Requests, StreetsAssumption
    <2>2. found' \in [Checks -> SUBSET Countries]
        BY <1>3 DEF TypeOK, RequestDone
    <2>3. language' \in [Checks -> [Languages -> {"search", "param", "paramAfterFail",
                                                  "done", "failed"}]]
        BY <1>3 DEF TypeOK, RequestDone, AllSearching
    <2> QED
        BY <1>3, <2>1, <2>2, <2>3 DEF TypeOK, RequestDone
<1>4. CASE CheckDone(k)
    BY <1>1, <1>4 DEF TypeOK, CheckDone
<1> QED
    BY <1>2, <1>3, <1>4 DEF Check

LEMMA HandleTypeOK ==
    ASSUME TypeOK, Handle
    PROVE  TypeOK'
<1>1. CASE CityStreetFailed
    BY <1>1 DEF TypeOK, CityStreetFailed
<1>2. CASE StartPostal
    <2> PICK covered \in SUBSET answer["cityStreet"].match :
            /\ found' = [k \in Checks |-> IF k \in Postal THEN covered ELSE found[k]]
            /\ todo' = [k \in Checks |-> IF k \in Postal /\ covered # {} THEN 0 ELSE todo[k]]
        BY <1>2 DEF StartPostal
    <2>1. answer["cityStreet"] \in Answer
        BY DEF TypeOK, Checks
    <2>2. found' \in [Checks -> SUBSET Countries]
        BY <2>1 DEF TypeOK, Answer
    <2>3. todo' \in [Checks -> Nat] /\ \A c \in Checks : todo'[c] <= Requests(c)
        BY StreetsAssumption DEF TypeOK, Requests, StreetsAssumption
    <2>4. result' \in [error : BOOLEAN, match : [Checks -> SUBSET Countries]]
        BY <1>2, <2>1 DEF TypeOK, StartPostal, Answer
    <2> QED
        BY <1>2, <2>2, <2>3, <2>4 DEF TypeOK, StartPostal
<1>3. CASE GiveUp
    BY <1>3 DEF TypeOK, GiveUp
<1>4. ASSUME NEW k \in Postal, TakeAnswer(k)
      PROVE  TypeOK'
    <2>1. answer[k] \in Answer
        BY DEF TypeOK, Checks
    <2> QED
        BY <1>4, <2>1 DEF TypeOK, TakeAnswer, Combine, Answer
<1> QED
    BY <1>1, <1>2, <1>3, <1>4 DEF Handle

LEMMA StepTypeOK == TypeOK /\ [Next]_vars => TypeOK'
<1>1. TypeOK /\ ContextDone => TypeOK'
    BY DEF TypeOK, ContextDone
<1>2. TypeOK /\ UNCHANGED vars => TypeOK'
    BY DEF TypeOK, vars
<1> QED
    BY <1>1, <1>2, ApiTypeOK, CheckTypeOK, HandleTypeOK DEF Next

\* The goroutines' state and the result keep their types.
THEOREM LookupTypeCorrect == Spec => []TypeOK
BY InitTypeOK, StepTypeOK, PTL DEF Spec

-----------------------------------------------------------------------------
(***************************************************************************)
(* Errors and answers.                                                     *)
(***************************************************************************)

\* The error of a request is that of some language.
SomeLanguageFailed ==
    \A k \in Checks : failure[k] <=> \E l \in Languages : language[k][l] = "failed"

\* Handle hears the postal checks after it has heard the city/street check.
Heard ==
    /\ \A k \in Checks : stage[k] # "answered" => answer[k] = NoAnswer
    /\ handler = "cityStreet" => open = {} /\ \A k \in Postal : stage[k] = "off"
    /\ handler # "cityStreet" => stage["cityStreet"] = "answered"
    /\ handler = "postal" => ~answer["cityStreet"].error
    /\ (handler # "cityStreet" /\ ~answer["cityStreet"].error) =>
        /\ result.match["cityStreet"] = answer["cityStreet"].match
        /\ \A k \in Postal \ open :
                stage[k] = "answered" /\ result.match[k] = answer[k].match
    /\ (handler = "sent" /\ answer["cityStreet"].error) => result.error

\* As long as no call has succeeded the first request of the city/street check, if
\* there is one, does not either.
Unreached ==
    ~reached =>
        /\ \A k \in Checks, l \in Languages : language[k][l] \notin {"param", "done"}
        /\ (Languages # {} /\ Streets > 0) =>
            /\ todo["cityStreet"] = Streets
            /\ stage["cityStreet"] = "answered" => answer["cityStreet"].error

LookupInv == SomeLanguageFailed /\ Heard /\ Unreached

LEMMA InitLookup == Init => LookupInv
BY DEF Init, LookupInv, SomeLanguageFailed, Heard, Unreached, AllSearching, Checks,
       Postal, Requests

LEMMA ApiLookup ==
    ASSUME TypeOK, LookupInv, NEW k \in Checks, NEW l \in Languages, ApiCall(k, l)
    PROVE  LookupInv'
<1> PICK ok \in Outcomes : SearchCall(k, l, ok) \/ ParameterCall(k, l, ok)
    BY DEF ApiCall
<1>1. /\ UNCHANGED <<stage, todo, answer, handler, open, result>>
      /\ reached' = (reached \/ ok)
    BY DEF SearchCall, ParameterCall
<1>2. /\ \A c \in Checks, m \in Languages :
            (c # k \/ m # l) => language'[c][m] = language[c][m]
      /\ language'[k][l] \in {"param", "done"} =>
            ok \/ language[k][l] = "param" \/ language[k][l] = "done"
    BY DEF TypeOK, Asking, SearchCall, ParameterCall
<1>3. Heard'
    BY <1>1 DEF LookupInv, Heard
<1>4. Unreached'
    BY <1>1, <1>2 DEF LookupInv, Unreached
<1>5. CASE SearchCall(k, l, ok)
    <2>1. language'[k][l] # "failed" /\ language[k][l] # "failed" /\ failure' = failure
        BY <1>5 DEF TypeOK, SearchCall
    <2> QED
        BY <1>2, <1>3, <1>4, <2>1 DEF LookupInv, SomeLanguageFailed
<1>6. CASE ParameterCall(k, l, ok)
    <2> DEFINE failed == language[k][l] = "paramAfterFail" /\ ~ok
    <2>1. /\ language'[k][l] = IF failed THEN "failed" ELSE "done"
          /\ failure'[k] = (failure[k] \/ failed)
          /\ \A c \in Checks : c # k => failure'[c] = failure[c]
          /\ language[k][l] # "failed"
        BY <1>6 DEF TypeOK, ParameterCall, JoinError, Asking
    <2>2. ASSUME NEW c \in Checks, c # k
          PROVE  failure'[c] <=> \E m \in Languages : language'[c][m] = "failed"
        BY <1>2, <2>1, <2>2 DEF LookupInv, SomeLanguageFailed
    <2>3. failure[k] <=> \E m \in Languages : m # l /\ language[k][m] = "failed"
        BY <2>1 DEF LookupInv, SomeLanguageFailed
    <2>4. language'[k][l] = "failed" <=> failed
        BY <2>1
    <2>5. failure'[k] <=> \E m \in Languages : language'[k][m] = "failed"
        <3> HIDE DEF failed
        <3>1. \A m \in Languages : m # l => language'[k][m] = language[k][m]
            BY <1>2
        <3> QED
            BY <2>1, <2>3, <2>4, <3>1
    <2>6. SomeLanguageFailed'
        BY <2>2, <2>5 DEF SomeLanguageFailed
    <2> QED
        BY <1>3, <1>4, <2>6 DEF LookupInv
<1> QED
    BY <1>5, <1>6

LEMMA CheckLookup ==
    ASSUME TypeOK, LookupInv, NEW k \in Checks, Check(k)
    PROVE  LookupInv'
<1>1. /\ UNCHANGED <<failure, handler, open, result, reached>>
      /\ stage[k] = "running"
      /\ \A c \in Checks : c # k =>
            stage'[c] = stage[c] /\ answer'[c] = answer[c] /\ todo'[c] = todo[c]
    BY DEF TypeOK, Check, RequestFailed, RequestDone, CheckDone, Send, OneLess
<1>2. \A c \in Postal \ open : handler # "cityStreet" /\ ~answer["cityStreet"].error => c # k
    BY <1>1 DEF LookupInv, Heard
<1>3. handler # "cityStreet" => k # "cityStreet"
    BY <1>1 DEF LookupInv, Heard
<1>4. handler = "cityStreet" => k = "cityStreet"
    BY <1>1 DEF LookupInv, Heard, Checks, Postal
<1>5. "cityStreet" \in Checks /\ Postal \subseteq Checks /\ "cityStreet" \notin Postal
    BY DEF Checks, Postal
<1>6. stage'[k] # "answered" => answer'[k] = NoAnswer
    BY <1>1 DEF TypeOK, LookupInv, Heard, Check, RequestFailed, RequestDone, CheckDone, Send
<1>7. Heard'
    BY <1>1, <1>2, <1>3, <1>4, <1>5, <1>6 DEF LookupInv, Heard
<1>8. CASE RequestDone(k)
    <2>1. /\ AllDone(k) /\ ~failure[k] /\ UNCHANGED <<stage, answer>>
          /\ language' = [language EXCEPT ![k] = AllSearching]
        BY <1>8 DEF RequestDone
    <2>2. SomeLanguageFailed'
        BY <1>1, <2>1 DEF TypeOK, LookupInv, SomeLanguageFailed, AllSearching
    <2>3. ~reached => Languages = {}
        BY <2>1 DEF LookupInv, Unreached, SomeLanguageFailed, AllDone
    <2>4. Unreached'
        BY <1>1, <2>3 DEF Unreached
    <2> QED
        BY <1>7, <2>2, <2>4 DEF LookupInv
<1>9. CASE RequestFailed(k) \/ CheckDone(k)
    <2>1. UNCHANGED <<language, todo>>
        BY <1>9 DEF RequestFailed, CheckDone
    <2>2. SomeLanguageFailed'
        BY <1>1, <2>1 DEF LookupInv, SomeLanguageFailed
    <2>3. CASE RequestFailed(k)
        <3>1. answer'[k].error
            BY <2>3 DEF TypeOK, RequestFailed, Send
        <3>2. Unreached'
            BY <1>1, <1>5, <2>1, <3>1 DEF LookupInv, Unreached
        <3> QED
            BY <1>7, <2>2, <3>2 DEF LookupInv
    <2>4. CASE CheckDone(k)
        <3>1. todo[k] = 0
            BY <2>4 DEF CheckDone
        <3>2. Unreached'
            BY <1>1, <1>5, <2>1, <3>1 DEF LookupInv, Unreached
        <3> QED
            BY <1>7, <2>2, <3>2 DEF LookupInv
    <2> QED
        BY <1>9, <2>3, <2>4
<1> QED
    BY <1>8, <1>9 DEF Check

LEMMA HandleLookup ==
    ASSUME TypeOK, LookupInv, Handle
    PROVE  LookupInv'
<1>0. /\ UNCHANGED <<language, failure, answer, reached>>
      /\ todo'["cityStreet"] = todo["cityStreet"]
      /\ stage'["cityStreet"] = stage["cityStreet"]
    BY DEF TypeOK, Checks, Postal, Handle, CityStreetFailed, StartPostal, GiveUp, TakeAnswer
<1>1. SomeLanguageFailed' /\ Unreached'
    BY <1>0 DEF LookupInv, SomeLanguageFailed, Unreached
<1>2. CASE CityStreetFailed
    <2>1. /\ stage["cityStreet"] = "answered" /\ answer["cityStreet"].error
          /\ handler' = "sent" /\ UNCHANGED stage /\ result'.error
        BY <1>2 DEF TypeOK, CityStreetFailed
    <2> QED
        BY <1>0, <1>1, <2>1 DEF LookupInv, Heard
<1>3. CASE StartPostal
    <2>1. /\ handler = "cityStreet" /\ handler' = "postal" /\ open' = Postal
          /\ stage["cityStreet"] = "answered" /\ ~answer["cityStreet"].error
          /\ \A k \in Checks : stage'[k] # "answered" => stage[k] # "answered"
          /\ result'.match["cityStreet"] = answer["cityStreet"].match
        BY <1>3 DEF TypeOK, StartPostal, LookupInv, Heard, Checks
    <2> QED
        BY <1>0, <1>1, <2>1 DEF LookupInv, Heard
<1>4. CASE GiveUp
    BY <1>0, <1>1, <1>4 DEF GiveUp, LookupInv, Heard
<1>5. ASSUME NEW k \in Postal, TakeAnswer(k)
      PROVE  LookupInv'
    <2>1. /\ handler = "postal" /\ handler' \in {"postal", "sent"}
          /\ open' = open \ {k} /\ stage[k] = "answered" /\ UNCHANGED stage
        BY <1>5 DEF TakeAnswer
    <2>2. /\ result'.match[k] = answer[k].match
          /\ \A c \in Checks : c # k => result'.match[c] = result.match[c]
        BY <1>5 DEF TypeOK, TakeAnswer, Combine, Checks
    <2>3. "cityStreet" \in Checks /\ Postal \subseteq Checks /\ "cityStreet" \notin Postal
        BY DEF Checks, Postal
    <2> QED
        BY <1>0, <1>1, <2>1, <2>2, <2>3 DEF LookupInv, Heard
<1> QED
    BY <1>2, <1>3, <1>4, <1>5 DEF Handle

LEMMA StepLookup == TypeOK /\ LookupInv /\ [Next]_vars => LookupInv'
<1>1. LookupInv /\ (ContextDone \/ UNCHANGED vars) => LookupInv'
    BY DEF LookupInv, SomeLanguageFailed, Heard, Unreached, ContextDone, vars
<1> QED
    BY <1>1, ApiLookup, CheckLookup, HandleLookup DEF Next

\* Handle's reply holds what each of the checks has found, whichever of the two
\* postal checks answers first (handler.go:62-85).
THEOREM LookupAnswersCombined == Spec => []AnswersCombined
<1>1. LookupInv => AnswersCombined
    BY DEF LookupInv, Heard, AnswersCombined, Checks
<1> QED
    BY InitTypeOK, StepTypeOK, InitLookup, StepLookup, <1>1, PTL DEF Spec

\* An input with a street, and no call that succeeds: the reply is an error
\* (handler.go:53-60, check.go:77-82).
THEOREM UnreachableAlwaysReported == Streets > 0 => (Spec => []UnreachableReported)
<1> SUFFICES ASSUME Streets > 0
             PROVE  Spec => []UnreachableReported
    OBVIOUS
<1>1. LookupInv => UnreachableReported
    <2> SUFFICES ASSUME LookupInv, handler = "sent", ~reached, NEW k \in Checks, failure[k]
                 PROVE  result.error
        BY DEF UnreachableReported
    <2>1. Languages # {}
        BY DEF LookupInv, SomeLanguageFailed
    <2>2. answer["cityStreet"].error
        BY <2>1 DEF LookupInv, Unreached, Heard
    <2> QED
        BY <2>2 DEF LookupInv, Heard
<1> QED
    BY InitTypeOK, StepTypeOK, InitLookup, StepLookup, <1>1, PTL DEF Spec

\* A check goes on from a request only if no language failed on both calls, and ends
\* with an error only if one did (check.go:63-105).
THEOREM NoLanguageOverlooked == Spec => ErrorOfAnyLanguage
<1>1. ASSUME TypeOK, LookupInv, [Next]_vars, NEW k \in Checks, stage[k] = "running"
      PROVE  /\ todo'[k] < todo[k] => \A l \in Languages : language[k][l] = "done"
             /\ answer'[k].error => \E l \in Languages : language[k][l] = "failed"
    <2>1. todo[k] \in Nat /\ ~answer[k].error
        BY <1>1 DEF TypeOK, LookupInv, Heard, NoAnswer
    <2>2. ASSUME NEW c \in Checks, NEW l \in Languages, ApiCall(c, l)
          PROVE  todo' = todo /\ answer' = answer
        BY <2>2 DEF ApiCall, SearchCall, ParameterCall
    <2>3. ASSUME NEW c \in Checks, Check(c), c # k
          PROVE  todo'[k] = todo[k] /\ answer'[k] = answer[k]
        BY <1>1, <2>3 DEF TypeOK, Check, RequestFailed, RequestDone, CheckDone, Send, OneLess
    <2>4. CASE RequestFailed(k)
        BY <1>1, <2>1, <2>4 DEF LookupInv, SomeLanguageFailed, RequestFailed
    <2>5. CASE RequestDone(k)
        BY <1>1, <2>1, <2>5 DEF LookupInv, SomeLanguageFailed, RequestDone, AllDone
    <2>6. CASE CheckDone(k)
        BY <1>1, <2>1, <2>6 DEF TypeOK, CheckDone, Send
    <2>7. CASE Handle
        <3>1. CASE StartPostal
            BY <1>1, <2>1, <3>1 DEF TypeOK, LookupInv, Heard, StartPostal, Checks
        <3> QED
            BY <2>1, <2>7, <3>1 DEF Handle, CityStreetFailed, GiveUp, TakeAnswer
    <2>8. CASE ContextDone \/ UNCHANGED vars
        BY <2>1, <2>8 DEF ContextDone, vars
    <2> QED
        BY <1>1, <2>1, <2>2, <2>3, <2>4, <2>5, <2>6, <2>7, <2>8 DEF Next, Check
<1>2. TypeOK /\ LookupInv /\ [Next]_vars =>
        [\A k \in Checks : stage[k] = "running" =>
            /\ todo'[k] < todo[k] => \A l \in Languages : language[k][l] = "done"
            /\ answer'[k].error => \E l \in Languages : language[k][l] = "failed"]_vars
    BY <1>1
<1> QED
    BY InitTypeOK, StepTypeOK, InitLookup, StepLookup, <1>2, PTL DEF Spec, ErrorOfAnyLanguage

-----------------------------------------------------------------------------
(***************************************************************************)
(* The lookup as a source.                                                 *)
(***************************************************************************)
ReplyOfLookup ==
    IF handler = "sent"
    THEN [match |-> result.match, error |-> result.error, whole |-> Whole]
    ELSE [none |-> TRUE]

LEMMA InitSource == Init => Source!Init
BY DEF Init, Source!Init, Source!Pending

LEMMA QuietStep ==
    ASSUME UNCHANGED <<ctxDone, handler>>, handler = "sent" => UNCHANGED <<result, Whole>>
    PROVE  UNCHANGED Source!vars
BY DEF Source!vars

LEMMA SendingStep ==
    ASSUME TypeOK', handler # "sent", handler' = "sent", UNCHANGED ctxDone,
           result'.error \/ Whole' \/ ctxDone
    PROVE  Source!Next
<1> DEFINE r == [match |-> result'.match, error |-> result'.error, whole |-> Whole']
<1>1. r \in Source!Reply
    BY DEF TypeOK, Whole, Source!Reply
<1>2. Source!MayReply(r)
    BY DEF Source!MayReply, Source!Pending
<1>3. Source!ReplyWith(r)
    BY <1>2 DEF Source!ReplyWith
<1> QED
    BY <1>1, <1>3 DEF Source!Next

LEMMA StepSource == TypeOK /\ TypeOK' /\ LookupInv /\ [Next]_vars => [Source!Next]_(Source!vars)
<1> SUFFICES ASSUME TypeOK, TypeOK', LookupInv, [Next]_vars
             PROVE  Source!Next \/ UNCHANGED Source!vars
    OBVIOUS
<1>1. ASSUME NEW k \in Checks, NEW l \in Languages, ApiCall(k, l)
      PROVE  UNCHANGED Source!vars
    <2>1. UNCHANGED <<ctxDone, handler, result, open, answer>>
        BY <1>1 DEF ApiCall, SearchCall, ParameterCall
    <2> QED
        BY <2>1, QuietStep DEF Whole
<1>2. ASSUME NEW k \in Checks, Check(k)
      PROVE  UNCHANGED Source!vars
    <2>1. UNCHANGED <<ctxDone, handler, result, open>>
        BY <1>2 DEF Check, RequestFailed, RequestDone, CheckDone
    <2>2. handler = "sent" => k # "cityStreet"
        BY <1>2 DEF LookupInv, Heard, Check, RequestFailed, RequestDone, CheckDone
    <2>3. handler = "sent" => answer'["cityStreet"] = answer["cityStreet"]
        BY <1>2, <2>2 DEF TypeOK, Checks, Check, RequestFailed, RequestDone, CheckDone, Send
    <2> QED
        BY <2>1, <2>3, QuietStep DEF Whole
<1>3. CASE CityStreetFailed
    <2>1. /\ handler # "sent" /\ handler' = "sent" /\ UNCHANGED ctxDone
          /\ result'.error
        BY <1>3 DEF CityStreetFailed, TypeOK
    <2> QED
        BY <2>1, SendingStep
<1>4. CASE StartPostal
    <2>1. handler # "sent" /\ handler' # "sent" /\ UNCHANGED ctxDone
        BY <1>4 DEF StartPostal
    <2> QED
        BY <2>1 DEF Source!vars
<1>5. CASE GiveUp
    BY <1>5, SendingStep DEF GiveUp
<1>6. ASSUME NEW k \in Postal, TakeAnswer(k)
      PROVE  Source!Next \/ UNCHANGED Source!vars
    <2>1. /\ handler = "postal" /\ ~answer'["cityStreet"].error /\ UNCHANGED ctxDone
          /\ handler' = IF open' = {} THEN "sent" ELSE "postal"
        BY <1>6 DEF TakeAnswer, LookupInv, Heard
    <2>2. CASE open' = {}
        BY <2>1, <2>2, SendingStep DEF Whole
    <2>3. CASE open' # {}
        BY <2>1, <2>3 DEF Source!vars
    <2> QED
        BY <2>2, <2>3
<1>7. CASE ContextDone
    <2>1. ~ctxDone /\ ctxDone' = TRUE /\ UNCHANGED <<handler, result, open, answer>>
        BY <1>7 DEF ContextDone
    <2>2. UNCHANGED ReplyOfLookup
        BY <2>1 DEF ReplyOfLookup, Whole
    <2>3. Source!End
        BY <2>1, <2>2 DEF Source!End, ReplyOfLookup
    <2> QED
        BY <2>3 DEF Source!Next
<1>8. CASE UNCHANGED vars
    <2>1. UNCHANGED <<ctxDone, handler, result, open, answer>>
        BY <1>8 DEF vars
    <2> QED
        BY <2>1, QuietStep DEF Whole
<1> QED
    BY <1>1, <1>2, <1>3, <1>4, <1>5, <1>6, <1>7, <1>8 DEF Next, Handle

\* The lookup replies at most once, never changes what it has replied, and sends less
\* than all three answers only with an error or after the context has ended: the
\* safety part of ImplementsSource (handler.go:43-88).
THEOREM SourceImplemented == Spec => Source!Spec
BY InitTypeOK, StepTypeOK, InitLookup, StepLookup, InitSource, StepSource, PTL
   DEF Spec, Source!Spec
=============================================================================
