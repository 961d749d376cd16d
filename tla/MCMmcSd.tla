------------------------------ MODULE MCMmcSd ------------------------------
\* Cards and controllers for TLC.
EXTENDS MmcSd, TLC
Symmetry == Permutations(Requests)
MCCards == {[type |-> t, wp |-> FALSE] : t \in {"mmc", "sd1", "sdhc"}}
MCProtectedCards == {[type |-> "sdhc", wp |-> TRUE]}
\* The i.MX35 on its board, with DMA on the first silicon or with PIO; a controller
\* that reports changes of the slot and stops transfers itself; one that is polled.
Host(b, i, t, p, a, n, r) ==
  [blind |-> b, cdIntr |-> i, to1 |-> t, pio |-> p, autoStop |-> a, noise |-> n, removals |-> r]
MCHosts == {Host(TRUE, FALSE, TRUE, FALSE, FALSE, 1, 0), Host(TRUE, FALSE, FALSE, TRUE, FALSE, 1, 0),
            Host(FALSE, TRUE, FALSE, FALSE, TRUE, 0, 1), Host(FALSE, FALSE, FALSE, FALSE, FALSE, 0, 1)}
============================================================================
