------------------------------- MODULE MCFiles -------------------------------
(***************************************************************************)
(* Files with values for its constants.                                    *)
(***************************************************************************)
EXTENDS Files, TLC

CONSTANTS p0, p1, p2

MCProcs2  == {p0, p1}
MCProcs3  == {p0, p1, p2}
MCBusy0   == {p0}
MCNone    == {}
MCSleep   == {FALSE}
MCPoll    == {TRUE}
MCOne     == {512}
MCLbas    == 0 .. 20
MCOpen    == {"OPEN", "READ"}
MCExec    == {"EXEC"}

\* The second drive is there too; the others show a packet device and an error.
MCDriveKinds == (0 :> "ata") @@ (1 :> "ata") @@ (2 :> "atapi") @@ (3 :> "error")

\* One name is a prefix of the other.
A == <<"T">>
B == <<"T", "2">>
C == <<"U">>
MCNames   == {A, B, C}
MCOneName == {A}

\* The partition right behind the master boot record or not, one or two FATs,
\* a root directory of one or two sectors, clusters of one or two.
Volume(act, st, res, f, per, cluster, root, names) ==
  [active |-> act, start |-> st, reserved |-> res, fats |-> f, perFAT |-> per,
   perCluster |-> cluster, rootEntries |-> root, files |-> names]

MCSmall == Volume(128, 1, 1, 1, 1, 1, 8, <<A, B>>)
MCLarge == Volume(128, 2, 2, 2, 1, 2, 24, <<B, A>>)
MCOther == Volume(128, 1, 1, 1, 1, 1, 8, <<C>>)
MCIdle  == Volume(0, 1, 1, 1, 1, 1, 8, <<A>>)

MCVolumes       == {MCSmall, MCLarge, MCIdle}
MCWithOrWithout == {MCLarge, MCOther}
=============================================================================
