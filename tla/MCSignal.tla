------------------------------ MODULE MCSignal ------------------------------
EXTENDS Signal

Fn(restorer, mask) == [handler |-> "fn", restorer |-> restorer, mask |-> mask]

MCDispositions ==
  [s \in Sigs |-> CASE s = 2 -> {Fn(TRUE, {9, 10}), Fn(FALSE, {})}
                    [] s = 10 -> {Fn(TRUE, {}), SIG_IGN}
                    [] OTHER -> {Fn(TRUE, {2})}]
MCSigSets == {{9, 10}}
=============================================================================
