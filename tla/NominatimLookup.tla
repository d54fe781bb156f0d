--------------------------- MODULE NominatimLookup ---------------------------
(***************************************************************************)
(* One lookup at Nominatim (internal/nominatim/handler.go and check.go).   *)
(*                                                                         *)
(* Handle runs the city/street check and waits for it; then it runs the    *)
(* two postal checks side by side and collects their answers, unless the   *)
(* request's context ends first.  A check issues its requests one after    *)
(* the other.  A request asks Nominatim in every language at once, on one  *)
(* goroutine per language that makes two API calls in turn, and fails if   *)
(* some language failed twice.                                             *)
(*                                                                         *)
(* Matches are abstracted to the countries they lie in, a check's flag     *)
(* being that it has some; an API call is one step, at the moment its      *)
(* outcome is known.                                                       *)
(***************************************************************************)
EXTENDS Naturals

CONSTANTS
    Countries,  \* the countries in which a match can lie
    Languages,  \* languages asked per request; none if no URL is configured
    Streets     \* number of streets the input was normalized to

ASSUME StreetsAssumption == Streets \in Nat

Postal == {"postalCity", "postalStreet"}
Checks == {"cityStreet"} \cup Postal

\* The requests a check makes if none fails: one per street, or the two of
\* PostalCodeCityCheck.
Requests(k) == IF k = "postalCity" THEN 2 ELSE Streets

VARIABLES
    stage,      \* of each check's goroutine
    todo,       \* requests a check still has to finish
    language,   \* what each language's goroutine of the current request does
    failure,    \* nominatimError of a check's current request is set
    found,      \* the countries of a check's matches
    answer,     \* what a check has sent on its channel
    handler,    \* where the goroutine of Handle is
    open,       \* the channels among pC and qC that are not nil
    result,     \* what Handle has put together, sent when handler = "sent"
    ctxDone,    \* the request's context has ended
    reached     \* history: some API call has succeeded

vars == <<stage, todo, language, failure, found, answer, handler, open,
          result, ctxDone, reached>>

Answer == [error : BOOLEAN, match : SUBSET Countries]
NoAnswer == [error |-> FALSE, match |-> {}]

TypeOK ==
    /\ stage \in [Checks -> {"off", "running", "answered"}]
    /\ todo \in [Checks -> Nat] /\ \A k \in Checks : todo[k] <= Requests(k)
    /\ language \in [Checks -> [Languages -> {"search", "param", "paramAfterFail", "done", "failed"}]]
    /\ failure \in [Checks -> BOOLEAN]
    /\ found \in [Checks -> SUBSET Countries]
    /\ answer \in [Checks -> Answer]
    /\ handler \in {"cityStreet", "postal", "sent"}
    /\ open \subseteq Postal
    /\ result \in [error : BOOLEAN, match : [Checks -> SUBSET Countries]]
    /\ ctxDone \in BOOLEAN
    /\ reached \in BOOLEAN

AllSearching == [l \in Languages |-> "search"]

Init ==
    /\ stage = [k \in Checks |-> IF k = "cityStreet" THEN "running" ELSE "off"]
    /\ todo = [k \in Checks |-> Requests(k)]
    /\ language = [k \in Checks |-> AllSearching]
    /\ failure = [k \in Checks |-> FALSE]
    /\ found = [k \in Checks |-> {}]
    /\ answer = [k \in Checks |-> NoAnswer]
    /\ handler = "cityStreet"
    /\ open = {}
    /\ result = [error |-> FALSE, match |-> [k \in Checks |-> {}]]
    /\ ctxDone = FALSE
    /\ reached = FALSE

-----------------------------------------------------------------------------
(***************************************************************************)
(* request: the goroutines of the languages, and the wait for them.        *)
(***************************************************************************)

Asking(k, l) == stage[k] = "running" /\ todo[k] > 0
                    /\ language[k][l] \in {"search", "param", "paramAfterFail"}

\* A call may only succeed while the context lives: limiter and client take it.
Outcomes == {ok \in BOOLEAN : ok => ~ctxDone}

SearchCall(k, l, ok) ==
    /\ Asking(k, l)
    /\ language[k][l] = "search"
    /\ language' = [language EXCEPT ![k][l] = IF ok THEN "param" ELSE "paramAfterFail"]
    /\ reached' = (reached \/ ok)
    /\ UNCHANGED <<stage, todo, failure, found, answer, handler, open, result, ctxDone>>

LastLanguageDecides(k, failed) == failed    \* mutant: the last one overwrites

\* The error is only ever set: no other language's success clears it.
JoinError(k, failed) == failure[k] \/ failed

\* The second call is made although the first has failed; only two failures
\* make an error.
ParameterCall(k, l, ok) ==
    /\ Asking(k, l)
    /\ language[k][l] # "search"
    /\ LET failed == language[k][l] = "paramAfterFail" /\ ~ok
       IN /\ language' = [language EXCEPT ![k][l] = IF failed THEN "failed" ELSE "done"]
          /\ failure' = [failure EXCEPT ![k] = JoinError(k, failed)]
    /\ reached' = (reached \/ ok)
    /\ UNCHANGED <<stage, todo, found, answer, handler, open, result, ctxDone>>

\* wg.Wait.
AllDone(k) == \A l \in Languages : language[k][l] \in {"done", "failed"}

-----------------------------------------------------------------------------
(***************************************************************************)
(* The checks.                                                             *)
(***************************************************************************)

Send(k, error, match) ==
    /\ stage' = [stage EXCEPT ![k] = "answered"]
    /\ answer' = [answer EXCEPT ![k] = [error |-> error, match |-> match]]

OneLess(k) == [todo EXCEPT ![k] = @ - 1]

\* A check gives up at its first failed request and drops the matches so far.
RequestFailed(k) ==
    /\ stage[k] = "running" /\ todo[k] > 0 /\ AllDone(k)
    /\ failure[k]
    /\ Send(k, TRUE, {})
    /\ UNCHANGED <<todo, language, failure, found, handler, open, result, ctxDone, reached>>

\* Without a language there are no results.  PostalCodeCityCheck looks at the
\* results of its two requests together, which comes to the same.
RequestDone(k) ==
    /\ stage[k] = "running" /\ todo[k] > 0 /\ AllDone(k)
    /\ ~failure[k]
    /\ \E hits \in SUBSET Countries :
        /\ Languages = {} => hits = {}
        /\ found' = [found EXCEPT ![k] = @ \cup hits]
    /\ todo' = OneLess(k)
    /\ language' = [language EXCEPT ![k] = AllSearching]
    /\ UNCHANGED <<stage, failure, answer, handler, open, result, ctxDone, reached>>

BlocksUnlessRead(k) ==                      \* mutant: a channel without room
    /\ stage[k] = "running" /\ todo[k] = 0
    /\ k \in Postal => handler = "postal"
    /\ Send(k, FALSE, found[k])
    /\ UNCHANGED <<todo, language, failure, found, handler, open, result, ctxDone, reached>>

\* The channel has room for the answer: the check ends even if Handle has gone.
CheckDone(k) ==
    /\ stage[k] = "running" /\ todo[k] = 0
    /\ Send(k, FALSE, found[k])
    /\ UNCHANGED <<todo, language, failure, found, handler, open, result, ctxDone, reached>>

-----------------------------------------------------------------------------
(***************************************************************************)
(* Handle.                                                                 *)
(***************************************************************************)

SendsNoError ==                             \* mutant: before version 5.0.14
    /\ handler = "cityStreet" /\ stage["cityStreet"] = "answered"
    /\ answer["cityStreet"].error
    /\ handler' = "sent"
    /\ UNCHANGED <<stage, todo, language, failure, found, answer, open, result, ctxDone, reached>>

CityStreetFailed ==
    /\ handler = "cityStreet" /\ stage["cityStreet"] = "answered"
    /\ answer["cityStreet"].error
    /\ result' = [result EXCEPT !.error = TRUE]
    /\ handler' = "sent"
    /\ UNCHANGED <<stage, todo, language, failure, found, answer, open, ctxDone, reached>>

\* Both postal checks start.  If city/street matches have the postal code of the
\* input, both answer from those and issue no request.
StartPostal ==
    /\ handler = "cityStreet" /\ stage["cityStreet"] = "answered"
    /\ ~answer["cityStreet"].error
    /\ result' = [result EXCEPT !.match["cityStreet"] = answer["cityStreet"].match]
    /\ stage' = [k \in Checks |-> IF k \in Postal THEN "running" ELSE stage[k]]
    /\ \E covered \in SUBSET answer["cityStreet"].match :
        /\ found' = [k \in Checks |-> IF k \in Postal THEN covered ELSE found[k]]
        /\ todo' = [k \in Checks |-> IF k \in Postal /\ covered # {} THEN 0 ELSE todo[k]]
    /\ open' = Postal
    /\ handler' = "postal"
    /\ UNCHANGED <<language, failure, answer, ctxDone, reached>>

OnlyThisAnswer(k) ==                        \* mutant: starts from an empty result
    [error |-> answer[k].error,
     match |-> [c \in Checks |-> IF c = k THEN answer[k].match ELSE {}]]

Combine(k) ==
    [error |-> answer[k].error,
     match |-> [result.match EXCEPT ![k] = answer[k].match]]

WaitsForThree(k) ==                         \* mutant: counter < 3
    /\ handler = "postal"
    /\ k \in open /\ stage[k] = "answered"
    /\ open' = open \ {k}
    /\ result' = Combine(k)
    /\ UNCHANGED <<stage, todo, language, failure, found, answer, handler, ctxDone, reached>>

\* Both cases of the select overwrite the error with that of their own answer.
TakeAnswer(k) ==
    /\ handler = "postal"
    /\ k \in open /\ stage[k] = "answered"
    /\ open' = open \ {k}
    /\ result' = Combine(k)
    /\ handler' = IF open' = {} THEN "sent" ELSE "postal"
    /\ UNCHANGED <<stage, todo, language, failure, found, answer, ctxDone, reached>>

\* The select may also see the end of the context, and send what there is.
GiveUp ==
    /\ handler = "postal"
    /\ ctxDone
    /\ handler' = "sent"
    /\ UNCHANGED <<stage, todo, language, failure, found, answer, open, result, ctxDone, reached>>

ContextDone ==
    /\ ~ctxDone
    /\ ctxDone' = TRUE
    /\ UNCHANGED <<stage, todo, language, failure, found, answer, handler, open, result, reached>>

-----------------------------------------------------------------------------
ApiCall(k, l) == \E ok \in Outcomes : SearchCall(k, l, ok) \/ ParameterCall(k, l, ok)

Check(k) == RequestFailed(k) \/ RequestDone(k) \/ CheckDone(k)

Handle == CityStreetFailed \/ StartPostal \/ GiveUp \/ \E k \in Postal : TakeAnswer(k)

Next ==
    \/ \E k \in Checks, l \in Languages : ApiCall(k, l)
    \/ \E k \in Checks : Check(k)
    \/ Handle
    \/ ContextDone

Spec == Init /\ [][Next]_vars

\* Goroutines run, and an API call ends: the client has a timeout of its own and
\* the limiter serves every call (OutboundLimiter!EveryWaitReturns).
Fairness ==
    /\ \A k \in Checks, l \in Languages : WF_vars(ApiCall(k, l))
    /\ \A k \in Checks : WF_vars(Check(k))
    /\ WF_vars(Handle)

FairSpec == Spec /\ Fairness

-----------------------------------------------------------------------------
(***************************************************************************)
(* Properties.                                                             *)
(***************************************************************************)

\* A check goes on from a request only if no language failed on both calls, and
\* ends with an error only if one did, in whatever order they end (check.go:63-105).
ErrorOfAnyLanguage ==
    [][\A k \in Checks : stage[k] = "running" =>
        /\ todo'[k] < todo[k] => \A l \in Languages : language[k][l] = "done"
        /\ answer'[k].error => \E l \in Languages : language[k][l] = "failed"]_vars

\* Handle's reply holds what each of the checks has found, whichever of the two
\* postal checks answers first (handler.go:62-85).
AnswersCombined ==
    (handler = "sent" /\ open = {} /\ ~answer["cityStreet"].error) =>
        \A k \in Checks : result.match[k] = answer[k].match

\* Nominatim unreachable throughout, and an input with a street: the reply is an
\* error and not "nothing matches", however the checks and the end of the context
\* interleave (handler.go:53-60, check.go:77-82).
UnreachableReported ==
    (handler = "sent" /\ ~reached /\ \E k \in Checks : failure[k]) => result.error

\* "unreachable Nominatim no longer returns HTTP 200 with false result values"
\* (docs/src/docs/changelog.md:43): an error of a postal check that Handle has
\* heard is in its reply (handler.go:72, 77).
PostalErrorsReported ==
    (handler = "sent" /\ open = {} /\ \E k \in Postal : answer[k].error) => result.error

\* No goroutine of a check is left behind, also when Handle has given up
\* (handler.go:80-82, check.go:110, 195, 295).
NoGoroutineLeft ==
    \A k \in Checks : stage[k] = "running" ~> stage[k] = "answered"

-----------------------------------------------------------------------------
(***************************************************************************)
(* For the HTTP handler a lookup is a source that replies once.            *)
(***************************************************************************)
Whole == open = {} /\ ~answer["cityStreet"].error

Source == INSTANCE PairLookup
    WITH Matches <- [Checks -> SUBSET Countries],
         MayFail <- TRUE,
         reply <- IF handler = "sent"
                  THEN [match |-> result.match, error |-> result.error, whole |-> Whole]
                  ELSE [none |-> TRUE]

\* The lookup replies exactly once and always, with an error or with all three
\* answers unless the context has ended (handler.go:43-88).
ImplementsSource == Source!FairSpec
=============================================================================
