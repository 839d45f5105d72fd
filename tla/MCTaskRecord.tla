---------------------------- MODULE MCTaskRecord ----------------------------
(* Small instances of TaskRecord for TLC. *)
EXTENDS TaskRecord, TLC

OneTask == <<[required |-> TRUE, validators |-> <<[weight |-> 1, blocking |-> TRUE]>>]>>
Costs == <<5, 10>>
OnePath == {<<"logs", "rollback">>}
LongRetry == {[resets |-> 3, retries |-> 3, active |-> 700, estimated |-> 100]}
RequestSymmetry == Permutations(Requests)
=============================================================================
