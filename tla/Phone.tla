--------------------------------- MODULE Phone ---------------------------------
(***************************************************************************)
(* What every part of the app has in common: the session of                *)
(* mobile/src/auth/session.ts.  The app keeps whose credential it has and, *)
(* for the screens, whether it changed.  Firebase keeps the session when   *)
(* the app dies.                                                           *)
(***************************************************************************)
CONSTANTS
  Viewers,  \* accounts that sign in on this phone
  None

VARIABLE session  \* whose session the app has, or None
=============================================================================
