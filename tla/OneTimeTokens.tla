--------------------------- MODULE OneTimeTokens ---------------------------
(***************************************************************************)
(* What the server promises of the tokens it keeps in a table and accepts  *)
(* once: an OAuth handoff code, a refresh token.  The row is read, marked  *)
(* and then honoured in separate awaits, so the promise is not that at     *)
(* most one caller is served.  It is that a caller is served only if it    *)
(* saw the token before it was closed, that the token is closed when a     *)
(* caller is served, and that a closed token never opens again: nobody who *)
(* looks later gets anything.  A token kept in memory is taken in one step.*)
(***************************************************************************)
CONSTANTS Callers, Codes

VARIABLES
  issued,    \* tokens that exist
  open,      \* those that would be honoured
  seen,      \* <<caller, token>>: the caller found the token open
  granted    \* <<caller, token>>: the caller was served

oneTimeVars == <<issued, open, seen, granted>>

OneTimeInit == issued = {} /\ open = {} /\ seen = {} /\ granted = {}

\* New tokens, or copies of one; some may be closed from the start.
Issue(T) ==
  /\ T \cap issued = {}
  /\ issued' = issued \cup T
  /\ open \subseteq open' /\ open' \subseteq open \cup T
  /\ UNCHANGED <<seen, granted>>

Look(c, t) ==
  /\ t \in open
  /\ seen' = seen \cup {<<c, t>>}
  /\ UNCHANGED <<issued, open, granted>>

\* Tokens are marked, revoked, or outlive their time.
Close(T) ==
  /\ open' = open \ T
  /\ UNCHANGED <<issued, seen, granted>>

\* The caller's steps failed; the token may have been closed by then.
GiveUp(c, t) ==
  /\ seen' = seen \ {<<c, t>>}
  /\ open' \in {open, open \ {t}}
  /\ UNCHANGED <<issued, granted>>

Grant(c, t) ==
  /\ <<c, t>> \in seen
  /\ open' = open \ {t}
  /\ seen' = seen \ {<<c, t>>}
  /\ granted' = granted \cup {<<c, t>>}
  /\ UNCHANGED issued

\* A caller that was on its way to another token may take one from memory.
Take(c, t) ==
  /\ t \in open
  /\ open' = open \ {t}
  /\ seen' = {p \in seen : p[1] /= c}
  /\ granted' = granted \cup {<<c, t>>}
  /\ UNCHANGED issued

OneTimeNext ==
  \/ \E T \in SUBSET Codes : Issue(T) \/ Close(T)
  \/ \E c \in Callers, t \in Codes :
       Look(c, t) \/ GiveUp(c, t) \/ Grant(c, t) \/ Take(c, t)

OneTimeSpec == OneTimeInit /\ [][OneTimeNext]_oneTimeVars
=============================================================================
