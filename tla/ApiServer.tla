------------------------------ MODULE ApiServer ------------------------------
(***************************************************************************)
(* The deployed service from its start to its end: ApiServer.load and      *)
(* unload (modal_app.py:1649-1682), InferenceEngine.start and close        *)
(* (engine.py), and the answers of POST /v1/responses (api.py:787-902),    *)
(* whose clients may go away at any time.  The scheduler is here only what *)
(* these see of it: a loop that puts requests in flight, gives them tokens *)
(* and ends them (RaggedScheduler has the loop itself), and admission is   *)
(* left to TenantGate.                                                     *)
(*                                                                         *)
(* A token is a letter, or a piece of a character that the tokenizer (of   *)
(* bytes, as Qwen's) has split: its first piece, which says how many more  *)
(* it has, or a further one.                                               *)
(***************************************************************************)
EXTENDS Naturals, Sequences, FiniteSets

CONSTANTS
    Callers,   \* the requests that clients may send
    Streaming,  \* those with "stream": true
    MaxTokens,  \* max_output_tokens of every request
    MaxPieces   \* over how many tokens a character may be split

ASSUME ServerAssumption ==
    Streaming \subseteq Callers /\ MaxTokens \in Nat \ {0} /\ MaxPieces \in Nat

VARIABLES
    server,     \* "load", "init", "app", "serving", "closing", "closed", "refused"
    tenants,    \* ENGINE_TENANTS_JSON: "none", "valid", "invalid"
    ready,      \* InferenceEngine.ready
    loop,       \* the scheduler's task: "absent", "running", "stopping", "ended"
    flight,     \* the requests in the worker thread
    status,     \* "new", "live", or a terminal state, of each request
    tokens,     \* the tokens generated for it, but for EOS
    ended,      \* the requests whose future is resolved, STOP behind their tokens
    answer,     \* what the handler of each request has sent
    latecomers, \* the requests submitted while the server was closing
    orphans     \* those whose flight was given up, or found no capacity, once marked

serverVars == <<server, tenants, ready, loop, flight, status, tokens, ended, answer,
                latecomers, orphans>>
engineVars == <<loop, flight, status, tokens, ended, latecomers, orphans>>

Policies == {"none", "valid", "invalid"}
Scales == {"one container", "many", "invalid"}
Letter == <<"letter", 0>>
Further == <<"further", 0>>
Pieces == {Letter, Further} \cup {<<"first", more>> : more \in 1..(MaxPieces - 1)}

(* Token i is a further piece of the character that token j has begun.                 *)
Continues(s, j, i) ==
    s[j][1] = "first" /\ i - j <= s[j][2] /\ \A k \in (j + 1)..i : s[k] = Further
Joins(s, i) == \E j \in 1..(i - 1) : Continues(s, j, i)
Completes(s, i) == \E j \in 1..(i - 1) : Continues(s, j, i) /\ i - j = s[j][2]

(* The text of a sequence of tokens (detokenize): pieces that follow each other are    *)
(* one replacement character until the last makes them whole, and a stray piece is one. *)
Text(s) ==
    LET text[n \in 0..Len(s)] ==
          IF n = 0 THEN << >>
          ELSE IF Joins(s, n)
          THEN [text[n - 1] EXCEPT ![Len(text[n - 1])] = IF Completes(s, n) THEN "whole" ELSE @]
          ELSE Append(text[n - 1], IF s[n] = Letter THEN "a" ELSE "?")
    IN text[Len(s)]

Silent == [at |-> "none", taken |-> 0, prefix |-> 0, sent |-> << >>, final |-> << >>]

ServerInit ==
    /\ server = "load" /\ tenants = "none" /\ ready = FALSE
    /\ loop = "absent" /\ flight = {}
    /\ status = [r \in Callers |-> "new"]
    /\ tokens = [r \in Callers |-> << >>]
    /\ ended = {}
    /\ answer = [r \in Callers |-> Silent]
    /\ latecomers = {} /\ orphans = {}

-----------------------------------------------------------------------------
(* Start: it fails closed without a key and tenants, without a valid limit of          *)
(* containers, and without Redis where more than one may run.                          *)
LoadServer ==
    /\ server = "load"
    /\ \E key, redis \in BOOLEAN, scale \in Scales, policies \in Policies :
          IF (key \/ policies # "none") /\ scale # "invalid" /\ (scale = "many" => redis)
          THEN server' \in {"init", "refused"} /\ tenants' = policies
          ELSE server' = "refused" /\ UNCHANGED tenants
    /\ UNCHANGED <<ready, engineVars, answer>>

(* start: _initialize, in a thread, loads the model or raises; then the loop starts.   *)
Initialized ==
    /\ server = "init"
    /\ \/ server' = "refused" /\ UNCHANGED <<ready, loop>>
       \/ server' = "app" /\ ready' = TRUE /\ loop' = "running"
    /\ UNCHANGED <<tenants, flight, status, tokens, ended, answer, latecomers, orphans>>

(* parse_tenant_policies and create_app: policies that do not parse refuse the start,  *)
(* with the loop running.                                                              *)
AppCreated ==
    /\ server = "app"
    /\ server' = IF tenants = "invalid" THEN "refused" ELSE "serving"
    /\ tenants' = "none"
    /\ UNCHANGED <<ready, engineVars, answer>>

-----------------------------------------------------------------------------
IsTerminal(r) == status[r] \notin {"new", "live"}

(* Callers of S end as given: those in flight are only marked (Scheduler.cancel).     *)
Cancelled(S) ==
    LET live == {r \in S : status[r] = "live"}
    IN /\ status' = [r \in Callers |-> IF r \in live THEN "CANCELLED" ELSE status[r]]
       /\ ended' = ended \cup (live \ flight)

(* submit asserts ready, which holds until close has returned.                         *)
SubmitRequest(r) ==
    /\ ready /\ server \in {"serving", "closing"} /\ status[r] = "new"
    /\ status' = [status EXCEPT ![r] = "live"]
    /\ answer' = [answer EXCEPT ![r].at = IF r \in Streaming THEN "stream" ELSE "wait"]
    /\ latecomers' = IF server = "closing" THEN latecomers \cup {r} ELSE latecomers
    /\ UNCHANGED <<server, tenants, ready, loop, flight, tokens, ended, orphans>>

Launch ==
    /\ loop = "running" /\ flight = {}
    /\ flight' \in SUBSET {r \in Callers : status[r] = "live"} \ {{}}
    /\ UNCHANGED <<server, tenants, ready, loop, status, tokens, ended, answer, latecomers, orphans>>

(* The forward pass is over: each live request of it has got a token, or none yet, and *)
(* may be complete, by EOS or by the limit; what was cancelled meanwhile ends now.     *)
Land ==
    /\ flight # {}
    /\ \E live \in {{r \in flight : status[r] = "live"}} :
       \E next \in [live -> {<< >>} \cup {<<t>> : t \in Pieces}], eos \in SUBSET live :
          /\ \A r \in eos : next[r] = << >>
          /\ tokens' = [r \in Callers |-> IF r \in live THEN tokens[r] \o next[r] ELSE tokens[r]]
          /\ LET complete == eos \cup {r \in live : Len(tokens'[r]) = MaxTokens}
             IN /\ status' = [r \in Callers |-> IF r \in complete THEN "COMPLETED" ELSE status[r]]
                /\ ended' = ended \cup (flight \ live) \cup complete
    /\ flight' = {}
    /\ UNCHANGED <<server, tenants, ready, loop, answer, latecomers, orphans>>

FlightFails ==
    /\ flight # {}
    /\ status' = [r \in Callers |->
                    IF r \in flight /\ status[r] = "live" THEN "FAILED" ELSE status[r]]
    /\ ended' = ended \cup flight
    /\ flight' = {}
    /\ UNCHANGED <<server, tenants, ready, loop, tokens, answer, latecomers, orphans>>

(* A pass without capacity preempts one request, or fails the only one there is; what  *)
(* was cancelled in flight is not looked at (_run_packed, scheduler.py:383-394).       *)
NoCapacity ==
    /\ flight # {}
    /\ LET live == {r \in flight : status[r] = "live"}
       IN \/ UNCHANGED <<status, ended>>
          \/ /\ Cardinality(live) = 1
             /\ status' = [r \in Callers |-> IF r \in live THEN "FAILED" ELSE status[r]]
             /\ ended' = ended \cup live
    /\ orphans' = orphans \cup {r \in flight : status[r] # "live"}
    /\ flight' = {}
    /\ UNCHANGED <<server, tenants, ready, loop, tokens, answer, latecomers>>

-----------------------------------------------------------------------------
\* Mutant: the loop is stopped, and the requests are left to themselves.
UnloadOnly ==
    /\ server \in {"serving", "refused"}
    /\ server' = "closing"
    /\ loop' = IF loop = "running" THEN "stopping" ELSE loop
    /\ UNCHANGED <<tenants, ready, flight, status, tokens, ended, answer, latecomers, orphans>>

(* unload and the first half of close, up to the await in stop: everything that waits  *)
(* or is active is cancelled, and the loop is told to stop.                            *)
Unload ==
    /\ server \in {"serving", "refused"}
    /\ server' = "closing"
    /\ Cancelled(Callers)
    /\ loop' = IF loop = "running" THEN "stopping" ELSE loop
    /\ UNCHANGED <<tenants, ready, flight, tokens, answer, latecomers, orphans>>

LoopEnds ==
    /\ loop = "stopping" /\ flight = {}
    /\ loop' = "ended"
    /\ UNCHANGED <<server, tenants, ready, flight, status, tokens, ended, answer, latecomers, orphans>>

(* stop waits for five seconds, then cancels the task in the middle of its flight.     *)
StopTimesOut ==
    /\ loop = "stopping" /\ flight # {}
    /\ loop' = "ended"
    /\ orphans' = orphans \cup flight
    /\ flight' = {}
    /\ UNCHANGED <<server, tenants, ready, status, tokens, ended, answer, latecomers>>

Closed ==
    /\ server = "closing" /\ loop \in {"absent", "ended"}
    /\ server' = "closed" /\ ready' = FALSE
    /\ UNCHANGED <<tenants, engineVars, answer>>

-----------------------------------------------------------------------------
\* Mutant: the prefix is not moved on.
DeltaFromStart(r) ==
    /\ answer[r].at = "stream" /\ answer[r].taken < Len(tokens[r])
    /\ LET n == answer[r].taken + 1
           text == Text(SubSeq(tokens[r], 1, n))
       IN answer' = [answer EXCEPT ![r].taken = n, ![r].sent = @ \o text]
    /\ UNCHANGED <<server, tenants, ready, engineVars>>

(* token_deltas: the text so far is decoded anew with every token, and what lies       *)
(* behind the length of the text before is sent, if there is anything.                 *)
Delta(r) ==
    /\ answer[r].at = "stream" /\ answer[r].taken < Len(tokens[r])
    /\ LET n == answer[r].taken + 1
           text == Text(SubSeq(tokens[r], 1, n))
       IN answer' = [answer EXCEPT ![r].taken = n, ![r].prefix = Len(text),
                        ![r].sent = @ \o SubSeq(text, answer[r].prefix + 1, Len(text))]
    /\ UNCHANGED <<server, tenants, ready, engineVars>>

(* STOP: output_text.done carries the pieces sent, whatever has ended the request.     *)
TextDone(r) ==
    /\ answer[r].at = "stream" /\ answer[r].taken = Len(tokens[r]) /\ r \in ended
    /\ answer' = [answer EXCEPT ![r].at = "done"]
    /\ UNCHANGED <<server, tenants, ready, engineVars>>

(* RequestHandle.wait: the text of all tokens, or an exception for what did not        *)
(* complete: a 500, or a stream that breaks off before response.completed.             *)
Waited(r) ==
    /\ answer[r].at \in {"wait", "done"} /\ r \in ended
    /\ answer' = [answer EXCEPT
          ![r].at = IF status[r] = "COMPLETED" THEN "completed" ELSE "broken",
          ![r].final = IF status[r] = "COMPLETED" THEN Text(tokens[r]) ELSE << >>]
    /\ UNCHANGED <<server, tenants, ready, engineVars>>

(* The client goes away: the request is cancelled, if it is not over.                  *)
Disconnect(r) ==
    /\ answer[r].at \in {"wait", "stream", "done"}
    /\ answer' = [answer EXCEPT ![r].at = "dropped"]
    /\ Cancelled({r})
    /\ UNCHANGED <<server, tenants, ready, loop, flight, tokens, latecomers, orphans>>

Over == server = "closed" /\ UNCHANGED serverVars

ServerNext ==
    \/ LoadServer \/ Initialized \/ AppCreated
    \/ Launch \/ Land \/ FlightFails \/ NoCapacity
    \/ Unload \/ LoopEnds \/ StopTimesOut \/ Closed \/ Over
    \/ \E r \in Callers :
          SubmitRequest(r) \/ Delta(r) \/ TextDone(r) \/ Waited(r) \/ Disconnect(r)

-----------------------------------------------------------------------------
(* When unload has returned, every caller has been given an end, but for those who     *)
(* came after close had begun, and those whose flight was given up after five seconds  *)
(* or came back without capacity after the cancellation (scheduler.py:10-12 says every *)
(* terminal path resolves the caller's future; engine.py:600-605).                     *)
NothingAbandoned ==
    server = "closed" =>
        \A r \in Callers : status[r] # "new" => r \in ended \cup latecomers \cup orphans

(* An answer is called complete only when the request is, and with its whole text; the *)
(* pieces streamed before are that text, none lost and none twice, but that every      *)
(* character split over tokens, and no other, was sent as the replacement character    *)
(* (api.py:854-865; README.md:657 and tests/test_api.py:320 say they are equal).       *)
AsSent(char) == IF char = "whole" THEN "?" ELSE char
StreamSound ==
    \A r \in Callers : answer[r].at = "completed" =>
        /\ status[r] = "COMPLETED" /\ answer[r].final = Text(tokens[r])
        /\ r \in Streaming =>
             /\ Len(answer[r].sent) = Len(answer[r].final)
             /\ \A k \in 1..Len(answer[r].sent) : answer[r].sent[k] = AsSent(answer[r].final[k])
==============================================================================
