------------------------------ MODULE ProtocolV2 ------------------------------
(***************************************************************************)
(* Correctness Protocol V2 (experiments/protocol_v2.py and its entry points*)
(* in modal_app.py): requests of two engines are compared token by token,  *)
(* a first disagreement is classified by how close the engines' two best   *)
(* choices were, a tolerance is proposed from a calibration split, and a   *)
(* sealed holdout split is judged with the tolerance that was committed.   *)
(***************************************************************************)
EXTENDS Naturals, Integers, Sequences, FiniteSets, FiniteSetsExt

CONSTANTS
    Cells,         \* names of the cells of V2_CELLS
    Load,          \* [concurrency, batches] of each cell
    TopK,          \* length of the lists of best choices
    Comparisons,   \* the pairs of results, [custom, vllm], two children may return
    MaxSplits      \* bound: runs of either split

(* What an engine returns: its tokens and, for each, its best choices.                  *)
Result == [tokens : Seq(Nat), finite : BOOLEAN, best : Seq(Seq(Nat \X Int))]

(* Both engines run to the same number of tokens whatever they are, and vLLM returns   *)
(* the choices for every token, as it was asked to (logprobs=TOP_K).                   *)
ASSUME ComparisonAssumption ==
    /\ Comparisons \subseteq [custom : Result, vllm : Result]
    /\ \A pair \in Comparisons :
          /\ Len(pair.custom.tokens) = Len(pair.vllm.tokens)
          /\ Len(pair.vllm.best) >= Len(pair.vllm.tokens)

ASSUME ProtocolAssumption ==
    /\ IsFiniteSet(Cells)
    /\ Load \in [Cells -> [concurrency : Nat \ {0}, batches : Nat]]
    /\ TopK \in Nat \ {0} /\ MaxSplits \in Nat

(* A margin or a tolerance that does not exist.                                        *)
None == -1

VARIABLES
    split,      \* "none", or the split being run
    epsilon,    \* its tolerance; None while calibrating
    results,    \* what its finished batches returned: request -> comparison
    crashed,    \* has a child of it crashed
    pending,    \* its batches that have not run
    judged,     \* the file of the last run: split, tolerance, results
    committed,  \* the tolerance in source control
    splits      \* how many runs were started

protocolVars == <<split, epsilon, results, crashed, pending, judged, committed, splits>>

Batches == {<<c, b>> : c \in Cells, b \in 1..Max({Load[c].batches : c \in Cells})}
SplitBatches == {x \in Batches : x[2] <= Load[x[1]].batches}
RequestsOf(batch) == {<<batch[1], batch[2], i>> : i \in 1..Load[batch[1]].concurrency}
AllRequests == UNION {RequestsOf(batch) : batch \in SplitBatches}

(***************************************************************************)
(* One request.  A result has the tokens generated and, for each, the best *)
(* choices <<token, log-probability>> of the engine, best first.           *)
(***************************************************************************)
Chosen(list) == {list[i][1] : i \in 1..Len(list)}
Margin(list) == IF Len(list) < 2 THEN None ELSE list[1][2] - list[2][2]
Overlap(a, b) == Cardinality(Chosen(a) \cap Chosen(b))

Window(pair) == Min({Len(pair.custom.tokens), Len(pair.vllm.tokens)})
Differs(pair) == {i \in 1..Window(pair) : pair.custom.tokens[i] # pair.vllm.tokens[i]}

\* Mutant: the last position where they differ.
LastDifference(pair) == Max(Differs(pair))

FirstDifference(pair) == Min(Differs(pair))

(* first_disagreement: what both engines thought at the first position where they      *)
(* differ; beyond it their prefixes are different and nothing is compared.             *)
FirstDisagreement(pair) ==
    LET i == FirstDifference(pair)
        mine == pair.custom.best[i]
        theirs == pair.vllm.best[i]
    IN [margins |-> <<Margin(mine), Margin(theirs)>>,
        overlap |-> Overlap(mine, theirs),
        known |-> <<pair.custom.tokens[i] \in Chosen(theirs), pair.vllm.tokens[i] \in Chosen(mine)>>]

(* The custom engine's tokens must be its own best choices; vLLM's are not looked at,  *)
(* its "verified" is the constant True.                                                *)
SelfVerified(result) ==
    /\ Len(result.best) >= Len(result.tokens)
    /\ \A k \in DOMAIN result.tokens : result.best[k][1][1] = result.tokens[k]

(* The two optional reasons, batch-versus-solo drift and mixed-up requests: every      *)
(* caller leaves both arguments at None.                                               *)
OptionalReasons == {}

(* Reasons against a request whatever the tolerance.                                   *)
Unsound(pair) ==
    OptionalReasons \cup
    {r \in {"custom_unverified", "custom_non_finite", "vllm_non_finite"} :
        \/ r = "custom_unverified" /\ ~SelfVerified(pair.custom)
        \/ r = "custom_non_finite" /\ ~pair.custom.finite
        \/ r = "vllm_non_finite"   /\ ~pair.vllm.finite}

Unrelated(d, concurrency) ==
    {r \in {"at_concurrency_one", "low_overlap", "custom_token_missing", "vllm_token_missing"} :
        \/ r = "at_concurrency_one"   /\ concurrency <= 1
        \/ r = "low_overlap"          /\ 10 * d.overlap < 3 * TopK
        \/ r = "custom_token_missing" /\ ~d.known[1]
        \/ r = "vllm_token_missing"   /\ ~d.known[2]}

Within(m, e) == m # None /\ m <= e

(* classify_request *)
Reasons(pair, e, concurrency) ==
    IF Differs(pair) = {} THEN Unsound(pair)
    ELSE LET d == FirstDisagreement(pair)
         IN Unsound(pair) \cup Unrelated(d, concurrency)
            \cup (IF e # None /\ ~(Within(d.margins[1], e) /\ Within(d.margins[2], e))
                  THEN {"confident"} ELSE {})

Verdict(pair, e, concurrency) ==
    IF Reasons(pair, e, concurrency) # {} THEN "hard_failure"
    ELSE IF Differs(pair) = {} THEN "exact_match"
    ELSE IF e = None THEN "pending_epsilon"
    ELSE "near_tie_qualified"

VerdictOf(rs, x, e) == Verdict(rs[x], e, Load[x[1]].concurrency)
Having(rs, e, verdict) == {x \in DOMAIN rs : VerdictOf(rs, x, e) = verdict}

(* propose_epsilon: the largest margin of a disagreement with nothing else against it. *)
Candidates(rs) ==
    {x \in DOMAIN rs : /\ Differs(rs[x]) # {}
                       /\ Reasons(rs[x], None, Load[x[1]].concurrency) = {}
                       /\ None \notin {FirstDisagreement(rs[x]).margins[k] : k \in {1, 2}}}

\* Mutant: the margin of the custom engine only.
CustomEpsilon(rs) ==
    IF Candidates(rs) = {} THEN None
    ELSE Max({FirstDisagreement(rs[x]).margins[1] : x \in Candidates(rs)})

ProposedEpsilon(rs) ==
    IF Candidates(rs) = {} THEN None
    ELSE Max(UNION {{FirstDisagreement(rs[x]).margins[k] : k \in {1, 2}} : x \in Candidates(rs)})

(***************************************************************************)
(* The two entry points and the remote function they share.                *)
(***************************************************************************)
NoRun == [split |-> "none", epsilon |-> None, crashed |-> FALSE, results |-> << >>]

ProtocolInit ==
    /\ split = "none" /\ epsilon = None /\ results = << >> /\ crashed = FALSE
    /\ pending = {} /\ judged = NoRun /\ committed = None /\ splits = 0

Start(name, e) ==
    /\ split = "none" /\ splits < MaxSplits
    /\ split' = name /\ epsilon' = e
    /\ results' = << >> /\ crashed' = FALSE
    /\ pending' = SplitBatches /\ splits' = splits + 1
    /\ judged' = NoRun
    /\ UNCHANGED committed

Calibrate == Start("calibration", None)
Holdout == committed # None /\ Start("holdout", committed)

(* The children of the next batch, each a fresh process.  A request that does not      *)
(* complete raises in wait(), so that its child crashes; the batches after it run all  *)
(* the same.                                                                           *)
RunBatch ==
    /\ pending # {}
    /\ LET batch == CHOOSE b \in pending : TRUE
       IN /\ pending' = pending \ {batch}
          /\ \/ \E rs \in [RequestsOf(batch) -> Comparisons] :
                   results' = [x \in DOMAIN results \cup DOMAIN rs |->
                                 IF x \in DOMAIN rs THEN rs[x] ELSE results[x]]
                /\ UNCHANGED crashed
             \/ crashed' = TRUE /\ UNCHANGED results
    /\ UNCHANGED <<split, epsilon, judged, committed, splits>>

(* The file of the run is written: with the classifications, or with the crashes only. *)
Finish ==
    /\ split # "none" /\ pending = {}
    /\ judged' = [split |-> split, epsilon |-> epsilon, crashed |-> crashed,
                  results |-> IF crashed THEN << >> ELSE results]
    /\ split' = "none" /\ epsilon' = None /\ results' = << >> /\ crashed' = FALSE
    /\ UNCHANGED <<pending, committed, splits>>

(* A person commits the tolerance a calibration has printed.                           *)
Commit ==
    /\ judged.split = "calibration" /\ ~judged.crashed
    /\ ProposedEpsilon(judged.results) # None
    /\ committed' = ProposedEpsilon(judged.results)
    /\ UNCHANGED <<split, epsilon, results, crashed, pending, judged, splits>>

AllRun == split = "none" /\ splits = MaxSplits /\ UNCHANGED protocolVars

ProtocolNext == Calibrate \/ Holdout \/ RunBatch \/ Finish \/ Commit \/ AllRun

(* protocol_v2_holdout: the gate of requirement 10.                                    *)
GatePasses ==
    /\ judged.split = "holdout" /\ ~judged.crashed
    /\ Having(judged.results, judged.epsilon, "hard_failure") = {}
    /\ Having(judged.results, judged.epsilon, "pending_epsilon") = {}

(* "every calibration-set near-tie candidate would in fact qualify" under the proposed *)
(* tolerance (protocol_v2.py:296-304).                                                 *)
CandidatesQualify ==
    judged.split = "calibration" =>
      \A x \in Candidates(judged.results) :
         VerdictOf(judged.results, x, ProposedEpsilon(judged.results)) = "near_tie_qualified"

(* The gate passes only if every request of every batch was run and compared, those    *)
(* run alone agree on every token, and where others first disagree both engines were   *)
(* within the committed tolerance and knew the other's token; nothing is non-finite,   *)
(* and every token of the custom engine was its best choice                            *)
(* (CORRECTNESS_PROTOCOL_V2.md, requirements 1 and 10).  Of the hard failures of       *)
(* requirement 5 (99-109) it says nothing of drift between alone and batched, of       *)
(* requests mixed up, and of vLLM's own choices, which no gate evaluates               *)
(* (protocol_v2.py:238-250, 499).                                                      *)
GateSound ==
    GatePasses =>
      /\ DOMAIN judged.results = AllRequests
      /\ \A x \in AllRequests :
           LET pair == judged.results[x]
           IN /\ Len(pair.custom.tokens) = Len(pair.vllm.tokens)
              /\ \A k \in 1..Len(pair.custom.tokens) :
                    pair.custom.best[k][1][1] = pair.custom.tokens[k]
              /\ pair.custom.finite /\ pair.vllm.finite
              /\ Load[x[1]].concurrency = 1 => pair.custom.tokens = pair.vllm.tokens
              /\ pair.custom.tokens # pair.vllm.tokens =>
                   \E i \in 1..Len(pair.custom.tokens) :
                     /\ \A j \in 1..(i - 1) : pair.custom.tokens[j] = pair.vllm.tokens[j]
                     /\ pair.custom.tokens[i] # pair.vllm.tokens[i]
                     /\ pair.custom.tokens[i] \in Chosen(pair.vllm.best[i])
                     /\ pair.vllm.tokens[i] \in Chosen(pair.custom.best[i])
                     /\ \A list \in {pair.custom.best[i], pair.vllm.best[i]} :
                           Margin(list) # None /\ Margin(list) <= judged.epsilon
==============================================================================
