------------------------- MODULE MCCapturePipeline -------------------------
(* Instances of CapturePipeline for TLC: two captures whose containers share *)
(* the first 12 characters of their names, so that they meet in one          *)
(* directory when they start in the same second and keep apart otherwise.    *)
EXTENDS CapturePipeline, TLC

CONSTANTS c1, c2

MCCapture   == {c1, c2}
MCShortId   == {"payment-serv"}
MCShortOf   == [c \in MCCapture |-> "payment-serv"]
MCApart     == (c1 :> "payment-serv") @@ (c2 :> "frontend-7c9")
MCTwoIds    == {"payment-serv", "frontend-7c9"}
MCSourceOf  == (c1 :> "docker") @@ (c2 :> "k8s")
MCArtifact  == {"metadata.json", "process.txt"}
MCOneFile   == {"metadata.json"}
MCOneWrite  == "metadata.json" :> 1
MCOneName   == ("manifest.json" :> 2) @@ ("metadata.json" :> 3)
MCWriteRank == ("metadata.json" :> 1) @@ ("process.txt" :> 2)
MCNameRank  == ("manifest.json" :> 2) @@ ("metadata.json" :> 3) @@ ("process.txt" :> 5)
MCNoFaults  == {<<0, 0>>}
MCFaults    == {<<1, 0>>, <<0, 1>>, <<0, 2>>}
============================================================================
