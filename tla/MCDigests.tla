----------------------------- MODULE MCDigests ------------------------------
(* The digests and the block hashes, one at a time, for TLC.                 *)
EXTENDS Sha1, Sha1Rounds, Skein256, Threefish, KeyHashes

MCConst == <<9, 1, 12, 22>>
MCRoundConst == [i \in 0 .. 3 |-> MCConst[i + 1]]
MCBlock == {[i \in 1 .. 16 |-> (i * i + 7 * m * i + 5 * m) % 32] : m \in 0 .. 2}
MCState == {<<1, 9, 30, 22, 16>>, <<31, 31, 31, 31, 31>>}

MCRotation == [d \in 0 .. 7 |-> [i \in 0 .. 1 |-> <<5, 2, 4, 4, 7, 6, 2, 5, 2, 4, 5, 3, 3, 2, 3, 6>>[2 * d + i + 1]]]
MCKey == {<<17, 200, 3, 91>>, <<255, 0, 255, 128>>}
MCTweak == {<<0, 70>>, <<250, 127>>}
MCPlain == {<<1, 2, 3, 4>>, <<0, 0, 0, 0>>, <<250, 99, 255, 131>>}

MCInit == Sha1Init /\ Sha1RoundsInit /\ SkeinInit /\ ThreefishInit /\ KeyHashesInit

Quiet == [sha |-> sha_pc = "new", rounds |-> t = 0, skein |-> sk_pc = "new",
          fish |-> injected = -2, keys |-> kh_alg = "none"]

OthersQuiet(me) == \A f \in DOMAIN Quiet \ {me} : Quiet[f]

MCNext ==
    \/ /\ OthersQuiet("sha") /\ Sha1Next
       /\ UNCHANGED <<roundVars, skeinVars, tfVars, keyHashVars>>
    \/ /\ OthersQuiet("rounds") /\ Sha1RoundsNext
       /\ UNCHANGED <<sha1Vars, skeinVars, tfVars, keyHashVars>>
    \/ /\ OthersQuiet("skein") /\ SkeinNext
       /\ UNCHANGED <<sha1Vars, roundVars, tfVars, keyHashVars>>
    \/ /\ OthersQuiet("fish") /\ ThreefishNext
       /\ UNCHANGED <<sha1Vars, roundVars, skeinVars, keyHashVars>>
    \/ /\ OthersQuiet("keys") /\ KeyHashesNext
       /\ UNCHANGED <<sha1Vars, roundVars, skeinVars, tfVars>>

MCSpec == MCInit /\ [][MCNext]_<<sha1Vars, roundVars, skeinVars, tfVars, keyHashVars>>
=============================================================================
