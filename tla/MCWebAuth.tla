------------------------------- MODULE MCWebAuth -------------------------------
(* The authentication routes on a small instance: two tabs in one browser and, *)
(* where there is a second client, one page in its browser.                    *)
EXTENDS WebAuth, TLC

CONSTANTS FirstClient, Tabs

MCBrowser == [p \in Pages |-> IF p \in Tabs THEN FirstClient
                              ELSE CHOOSE c \in Clients : c # FirstClient]

TabSymmetry == Permutations(Tabs)
=============================================================================
