------------------------------- MODULE MCFixApply -------------------------------
(* Small instances of FixApply: one hint of each kind, and command lines    *)
(* that reach every gate.                                                   *)
EXTENDS FixApply

CONSTANTS hSafe, hGuarded, hManual, hBlocked, hListed, hUnbound

MCHints == {hSafe, hGuarded, hManual, hBlocked, hListed, hUnbound}
MCClass == [h \in MCHints |-> CASE h \in {hSafe, hListed} -> "safe"
                                [] h \in {hGuarded, hUnbound} -> "guarded"
                                [] h = hManual -> "manual"
                                [] h = hBlocked -> "blocked"]

Apply == [apply |-> TRUE, fresh |-> TRUE, tty |-> TRUE, found |-> TRUE,
          hint |-> NoHint, hints |-> <<hSafe>>]
Of(hs) == [Apply EXCEPT !.hints = hs]

\* One process: every gate, --hint with two proposals of one hint, ranking.
OneLine == {Apply, [Apply EXCEPT !.apply = FALSE], [Apply EXCEPT !.found = FALSE],
            Of(<<>>), Of(<<hUnbound>>), Of(<<hUnbound, hSafe>>), Of(<<hManual>>),
            Of(<<hBlocked>>), Of(<<hListed>>), Of(<<hGuarded>>), Of(<<hManual, hSafe>>),
            [Of(<<hGuarded>>) EXCEPT !.fresh = FALSE],
            [Of(<<hGuarded>>) EXCEPT !.tty = FALSE],
            [Of(<<hSafe, hGuarded, hSafe>>) EXCEPT !.hint = hSafe],
            [Of(<<hGuarded, hManual, hGuarded>>) EXCEPT !.hint = hGuarded],
            [Of(<<hSafe>>) EXCEPT !.hint = hManual]}

\* Two processes at once: a safe fix twice, a guarded one, a manual one.
TwoLines == {[Of(<<hSafe, hSafe>>) EXCEPT !.hint = hSafe], Of(<<hGuarded>>), Of(<<hManual>>)}

SafeOnly == {Apply}
=================================================================================
