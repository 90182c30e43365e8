------------------------------ MODULE Identity ------------------------------
(***************************************************************************)
(* Binary identities (identity.rs) and the test that decides whether the   *)
(* identity of a program is a meaningful change from the recorded one.     *)
(* An identity is a record; hashes, team and signing ids are opaque        *)
(* values.                                                                 *)
(***************************************************************************)
CONSTANT FlagSignedUpdates   \* AlertConfig.flag_signed_updates

Unreadable == "unreadable"
Valid      == "valid"

\* current is a meaningful change from base.
ChangedSince(base, current) ==
  LET regressed == base.status = Valid /\ current.status # Valid
  IN /\ base.status # Unreadable
     /\ current.status # Unreadable
     /\ IF base.kind = "codesign" /\ current.kind = "codesign"
        THEN \/ base.team # current.team
             \/ base.signing # current.signing
             \/ regressed
             \/ base.value # current.value /\ FlagSignedUpdates
        ELSE base.value # current.value \/ regressed
=============================================================================
