-------------------------------- MODULE MCWebUI --------------------------------
(* The folder lies between the two files of the root in the listing.  The  *)
(* smaller file is sent in one request, the larger one in parts.           *)
EXTENDS WebUI

CONSTANTS root, dir

MCSizeOf == [n \in {1, 2} |-> IF n = 1 THEN 9 ELSE 11]
MCRank == [k \in {root, dir} \X {1, 2} |->
            CASE k = <<root, 1>> -> 1 [] k = <<dir, 1>> -> 2
              [] k = <<dir, 2>> -> 3 [] k = <<root, 2>> -> 4]
MCExisting == {<<root, 1>>, <<root, 2>>, <<dir, 1>>}
=============================================================================
