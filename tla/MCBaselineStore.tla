---------------------------- MODULE MCBaselineStore ----------------------------
(* Small instances of BaselineStore: three findings, two of them of one ID,    *)
(* and an ID in lower case that only a hand-written file has.                  *)
EXTENDS BaselineStore, TLC

CONSTANTS idA, idB, lowA

MCUpperOf == (idA :> idA) @@ (idB :> idB) @@ (lowA :> idA)

Finding(id, symptom, sev) == [id |-> id, symptom |-> symptom, sev |-> sev]
a1 == Finding(idA, 1, 3)
a2 == Finding(idA, 2, 2)
b1 == Finding(idB, 1, 2)
MCFound == {a1, a2, b1}

E(id, fp, exp) == [id |-> id, fp |-> fp, exp |-> exp]

MCInitialFiles == {NoFile, {E(lowA, NoFp, 0), E(idA, Fp(a1), 1), E(idB, NoFp, 0)}}

Scan(save, hidden) == [op |-> "scan", save |-> save, hidden |-> hidden]
Add(id, fp, expires) == [op |-> "add", id |-> id, fp |-> fp, expires |-> expires]
Create(ids, force, expires, fingerprint, minSev) ==
    [op |-> "create", ids |-> ids, force |-> force, expires |-> expires,
     fingerprint |-> fingerprint, minSev |-> minSev]

MCCommands ==
    {Scan(TRUE, FALSE), Scan(TRUE, TRUE),
     Add(lowA, NoFp, TRUE), Add(idA, Fp(a1), FALSE),
     [op |-> "remove", id |-> lowA, fp |-> NoFp],
     [op |-> "prune"],
     [op |-> "import", source |-> {E(lowA, NoFp, 0), E(idB, NoFp, 1)}, reasons |-> TRUE],
     [op |-> "import", source |-> {E(idA, NoFp, 0)}, reasons |-> FALSE],
     Create({}, FALSE, FALSE, FALSE, 3), Create({}, TRUE, FALSE, TRUE, 0),
     Create({idA}, FALSE, TRUE, TRUE, 0), Create({idA, idB}, TRUE, FALSE, FALSE, 0)}
=================================================================================
