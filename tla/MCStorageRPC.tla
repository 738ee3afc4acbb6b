---------------------------- MODULE MCStorageRPC ----------------------------
(***************************************************************************)
(* Instances of StorageRPC for TLC: one call of each group of handlers, in *)
(* the order the daemon registers them.                                    *)
(***************************************************************************)
EXTENDS StorageRPC

CONSTANTS c1, c2

MCCallOrder ==
  <<"GetDeviceIDs", "SetTSBMaxMinutes", "SetIsTSBEnabled",
    "GetHealthInfo", "NotifyMGRAboutFailure">>

\* One thread makes every call, another initialises the library meanwhile.
MCCallsOf == (c1 :> Calls) @@ (c2 :> {"Init"})
=============================================================================
