-------------------------------- MODULE Evidence --------------------------------
(***************************************************************************)
(* What collectors hand to rules.  A result is a status, the flag Partial  *)
(* and evidence: a function from the source of an entry to what its        *)
(* entries say.  A source that is not in the domain was not reported, and  *)
(* to most rules that is the same as an empty one.                         *)
(***************************************************************************)
EXTENDS Integers, FiniteSets, TLC

Nothing == <<>>   \* no evidence

\* One entry, if there is anything to say.
When(cond, source, says) == IF cond THEN source :> says ELSE Nothing

Result(status, partial, ev) == [status |-> status, partial |-> partial, ev |-> ev]
Ok(ev) == Result("ok", FALSE, ev)

\* A result that tells its reader to expect gaps.
Marked(r) == r.status # "ok" \/ r.partial

Has(r, source)        == source \in DOMAIN r.ev
Says(r, source, says) == Has(r, source) /\ r.ev[source] = says
Of(r, source)         == IF Has(r, source) THEN r.ev[source] ELSE {}

\* Severities, as in ScanPipeline.
Info == 0   Low == 1   Medium == 2   High == 3

\* The findings of a rule: an ID, a severity, and what it is about.
Found(cond, id, sev, about) == IF cond THEN {<<id, sev, about>>} ELSE {}
FoundAll(S, id, sev)        == {<<id, sev, x>> : x \in S}

IDs(findings) == {f[1] : f \in findings}
=================================================================================
