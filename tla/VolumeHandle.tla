---------------------------- MODULE VolumeHandle ----------------------------
(***************************************************************************)
(* Volume handles: CreateVolume (src/service/controller.go) returns the   *)
(* array's volume id with "$$" and the storage protocol appended, and     *)
(* validateVolumeID (src/storage/storagehelper.go) splits a handle on     *)
(* "$$" with strings.Split and accepts it when there are two pieces.      *)
(* Strings are sequences of characters of a small alphabet.               *)
(***************************************************************************)
EXTENDS Naturals, Sequences

Sep == <<"$", "$">>

\* strings.Split(s, sep) for a two-character sep: a separator at the front
\* ends an (empty) first piece and the rest is split again; otherwise the
\* first character belongs to the first piece of the rest's split.  This
\* cuts at the leftmost occurrence, as strings.Split does.
Pieces[s \in Seq(STRING)] ==
    IF s = <<>> THEN << <<>> >>
    ELSE IF Len(s) >= Len(Sep) /\ SubSeq(s, 1, Len(Sep)) = Sep
         THEN << <<>> >> \o Pieces[SubSeq(s, Len(Sep) + 1, Len(s))]
         ELSE LET rest == Pieces[Tail(s)]
              IN [rest EXCEPT ![1] = <<Head(s)>> \o @]

Split(s) == Pieces[s]

Invalid == [ok |-> FALSE, VolumeID |-> <<>>, StorageType |-> <<>>]

\* validateVolumeID: exactly two pieces, or "volume Id and other details not found".
ValidateVolumeID(h) ==
    LET parts == Split(h)
    IN IF Len(parts) # 2 THEN Invalid
       ELSE [ok |-> TRUE, VolumeID |-> parts[1], StorageType |-> parts[2]]

\* The handle CreateVolume returns for a volume the back end created.
HandleOf(id, proto) == id \o Sep \o proto

=============================================================================
