---------------------------- MODULE ProtocolAudit -----------------------------
(***************************************************************************)
(* The audit of Correctness Protocol V2: a request that failed the holdout *)
(* is run again by both engines, alone, in its batch, and in its batch     *)
(* with the request put first; its outputs are compared between the        *)
(* conditions, and with those of the other requests.                       *)
(*                                                                         *)
(* A prompt is named by its place in the batch of the holdout.             *)
(***************************************************************************)
EXTENDS ProtocolV2, SequencesExt

CONSTANTS
    AuditSize,      \* the requests of the batch
    AuditTarget,    \* the one that failed
    TargetOutputs,  \* [tokens, best, finite]: what an engine may answer to it
    OtherOutputs,   \* and to the others
    DriftBound,     \* log-probabilities further apart are "high_drift"
    AuditEpsilon    \* the tolerance of the holdout

ASSUME AuditAssumption ==
    AuditSize \in Nat \ {0} /\ AuditTarget \in 1..AuditSize /\ DriftBound \in Nat

(* Both engines run every request to the same number of tokens, whatever they are, and *)
(* return the choices of each.                                                         *)
ASSUME OutputAssumption ==
    /\ TargetOutputs \cup OtherOutputs \subseteq
          [tokens : Seq(Nat), finite : BOOLEAN, best : Seq(Seq(Nat \X Int))]
    /\ \A out \in TargetOutputs \cup OtherOutputs :
          /\ Len(out.best) >= Len(out.tokens)
          /\ \A other \in TargetOutputs \cup OtherOutputs : Len(other.tokens) = Len(out.tokens)

VARIABLES
    runs,    \* what the child of each <<variant, engine>> run so far has returned
    report   \* the analysis, once it is written

auditVars == <<runs, report>>

Variants == {"alone", "original", "reordered"}
Engines == {"custom", "vllm"}
Crashed == << >>
NoReport == [at |-> "none"]

(* build_audit_variants                                                                *)
BatchOf(v) ==
    LET original == [i \in 1..AuditSize |-> i]
    IN CASE v = "alone" -> <<AuditTarget>>
         [] v = "original" -> original
         [] v = "reordered" -> <<AuditTarget>> \o RemoveAt(original, AuditTarget)

\* Mutant: the target is looked for at its place in the original batch.
TargetIndexKept(v) == IF v = "alone" THEN 1 ELSE AuditTarget

TargetIndex(v) == IF v = "original" THEN AuditTarget ELSE 1

OutputsOf(prompt) == IF prompt = AuditTarget THEN TargetOutputs ELSE OtherOutputs

(* What an engine may answer to a batch: to each prompt one of its outputs.            *)
Answers(batch) ==
    {out \in [DOMAIN batch -> TargetOutputs \cup OtherOutputs] :
        \A i \in DOMAIN batch : out[i] \in OutputsOf(batch[i])}

ResultOf(prompt, out) ==
    [prompt |-> prompt, tokens |-> out.tokens, best |-> out.best, finite |-> out.finite]

(* The results of both engines are kept by request: the custom engine's rows of logits *)
(* by the requests the packed batches have sampled, vLLM's outputs as they finish; and *)
(* read in the order of the batch.                                                     *)
Results(batch) ==
    {[i \in DOMAIN batch |-> ResultOf(batch[i], out[i])] : out \in Answers(batch)}

-----------------------------------------------------------------------------
\* The analysis.

Apart(x, y) == IF x > y THEN x - y ELSE y - x

(* The largest distance over the choices in both lists; nothing is far that has none.  *)
HighDrift(a, b) ==
    \E i \in DOMAIN a, j \in DOMAIN b : a[i][1] = b[j][1] /\ Apart(a[i][2], b[j][2]) > DriftBound

(* batch_vs_solo_drift: up to the first token that differs, which is drift by itself.  *)
Drift(alone, batched) ==
    \E k \in 1..Min({Len(alone.tokens), Len(batched.tokens)}) :
       /\ \A j \in 1..(k - 1) : alone.tokens[j] = batched.tokens[j]
       /\ \/ alone.tokens[k] # batched.tokens[k]
          \/ HighDrift(alone.best[k], batched.best[k])

TargetResult(v, e) == runs[<<v, e>>][TargetIndex(v)]

(* check_cross_request_identity                                                        *)
Matching(v, e) ==
    {i \in DOMAIN runs[<<v, e>>] : /\ i # TargetIndex(v)
                                   /\ runs[<<v, e>>][i].tokens = TargetResult(v, e).tokens}

Analysis ==
    IF \E x \in DOMAIN runs : runs[x] = Crashed THEN [at |-> "crashed"]
    ELSE [at |-> "analyzed",
          suspected |-> {x \in DOMAIN runs : x[1] # "alone" /\ Matching(x[1], x[2]) # {}},
          verdict |-> [v \in Variants |->
                         Verdict([custom |-> TargetResult(v, "custom"), vllm |-> TargetResult(v, "vllm")],
                                 AuditEpsilon, Len(BatchOf(v)))],
          drifting |-> {e \in Engines : Drift(TargetResult("alone", e), TargetResult("original", e))}]

-----------------------------------------------------------------------------
AuditInit == runs = << >> /\ report = NoReport

AuditOrder == << <<"alone", "custom">>, <<"alone", "vllm">>, <<"original", "custom">>,
                 <<"original", "vllm">>, <<"reordered", "custom">>, <<"reordered", "vllm">> >>

ResultsOf(x) == Results(BatchOf(x[1]))

(* The next child, a fresh process: it returns its results, crashes or times out, and  *)
(* those after it run all the same.                                                    *)
RunVariant ==
    /\ \E k \in DOMAIN AuditOrder :
          LET x == AuditOrder[k]
          IN /\ x \notin DOMAIN runs /\ \A j \in 1..(k - 1) : AuditOrder[j] \in DOMAIN runs
             /\ \E result \in {Crashed} \cup ResultsOf(x) :
                   runs' = [y \in DOMAIN runs \cup {x} |-> IF y = x THEN result ELSE runs[y]]
    /\ UNCHANGED report

Analyze ==
    /\ \A k \in DOMAIN AuditOrder : AuditOrder[k] \in DOMAIN runs
    /\ report = NoReport
    /\ report' = Analysis
    /\ UNCHANGED runs

Audited == report # NoReport /\ UNCHANGED auditVars

AuditNext == RunVariant \/ Analyze \/ Audited

(* The report is about the request that failed, wherever it was in the batch: an       *)
(* engine drifts exactly if the request's tokens, alone and in its batch, are not the  *)
(* same or a choice known to both is out of the bound at some step; it is suspected of *)
(* mixing requests exactly if another prompt of the batch has got the same tokens; and *)
(* alone, engines that disagree have failed, whatever the tolerance                    *)
(* (protocol_v2.py:104-132, sentinel_diagnostics.py:187-201).                          *)
AuditSound ==
    report.at = "analyzed" =>
        LET answer(v, e) == CHOOSE a \in ToSet(runs[<<v, e>>]) : a.prompt = AuditTarget
            steady(a, b) ==
                /\ a.tokens = b.tokens
                /\ \A k \in DOMAIN a.tokens : \A x \in ToSet(a.best[k]), y \in ToSet(b.best[k]) :
                      x[1] = y[1] => Apart(x[2], y[2]) <= DriftBound
        IN /\ \A e \in Engines :
                 e \in report.drifting <=> ~steady(answer("alone", e), answer("original", e))
           /\ \A v \in {"original", "reordered"}, e \in Engines :
                 <<v, e>> \in report.suspected <=>
                    \E a \in ToSet(runs[<<v, e>>]) :
                       a.prompt # AuditTarget /\ a.tokens = answer(v, e).tokens
           /\ answer("alone", "custom").tokens # answer("alone", "vllm").tokens =>
                 report.verdict["alone"] = "hard_failure"
==============================================================================
