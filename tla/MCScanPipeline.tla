----------------------------- MODULE MCScanPipeline -----------------------------
(* Small instances of ScanPipeline: findings of four IDs, some of them the     *)
(* same instance reported again, and a handful of command lines.               *)
EXTENDS ScanPipeline

CONSTANTS idA, idB,      \* finding IDs; idB is a CI finding
          idDecl, idOpt, \* an evidence-only and an optional finding's ID
          MCThresholds   \* values of --fail-severity

Finding(id, symptom, sev, conf, ev) ==
    [id |-> id, title |-> 1, symptom |-> symptom, sev |-> sev, conf |-> conf, ev |-> ev]

aHigh  == Finding(idA, 1, 3, 1, {"x"})
aSure  == Finding(idA, 1, 3, 2, {"y"})
aLow   == Finding(idA, 1, 1, 2, {"y"})
aOther == Finding(idA, 2, 4, 1, {"x"})
aAnew  == [aHigh EXCEPT !.title = 2]   \* not merged with aHigh, but of its fingerprint
bMed   == Finding(idB, 1, 2, 1, {"x"})
bInfo  == Finding(idB, 2, 0, 1, {})
decl   == Finding(idDecl, 1, 3, 1, {"x"})
opt    == Finding(idOpt, 1, 2, 1, {"x"})

\* --view and --fail-severity together.
MCViews == {<<"actionable", t>> : t \in MCThresholds} \cup {<<"all", High>>, <<"ci", Medium>>}

MCOutputs == {<<>>, <<aLow, aHigh>>, <<aHigh, bMed, aSure, opt>>, <<bInfo, aOther, decl, aAnew>>}

MCOptions ==
    {[aiml |-> TRUE, ci |-> FALSE, pack |-> p, hidden |-> FALSE, save |-> FALSE, view |-> v[1],
      threshold |-> v[2], ids |-> q[1], fingerprints |-> q[2]] :
       p \in BOOLEAN, v \in MCViews,
       q \in {<<{}, {}>>, <<{idB}, {<<idA, 1>>}>>}}
    \cup
    {[aiml |-> FALSE, ci |-> TRUE, pack |-> FALSE, hidden |-> h, save |-> s, view |-> "actionable",
      threshold |-> t, ids |-> {idA}, fingerprints |-> {}] :
       h \in BOOLEAN, s \in BOOLEAN, t \in MCThresholds}
=================================================================================
