---------------------------- MODULE MC_Controller ----------------------------
(* Decimal array ids of one and two digits, as the InfiniBox returns;    *)
(* protocol names of a letter, one of them with a back end; one node.     *)
EXTENDS Controller

CONSTANTS n1

\* All strings over chars of length 1..n, as sequences of characters.
MCStrings(chars, n) == UNION {[1..k -> chars] : k \in 1..n}

\* Volume ids: decimal strings.
MCDecimalIds == MCStrings({"1", "2"}, 2)

\* Protocol names; "i" has a back end, "ii" has none.
MCProtoNames == MCStrings({"i"}, 2)
MCProtos == {<<"i">>}

MCNodes == {n1}

\* A hand-written volumeHandle with no "$$", which validateVolumeID rejects.
MCStaticHandles == {<<"7">>}
=============================================================================
