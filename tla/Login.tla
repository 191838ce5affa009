-------------------------------- MODULE Login --------------------------------
(***************************************************************************)
(* The login of the runtime, which a confined process reads and may not     *)
(* refresh (auth_file.py): the application refreshes it ahead of time       *)
(* (auth_refresh.py), every Interval, with a margin wider than the          *)
(* runtime's own.  The loop is supervised: when it crashes it starts again  *)
(* within a tick.                                                           *)
(***************************************************************************)
EXTENDS Naturals

CONSTANTS
    Lifetime,       \* of a login, from its refresh
    Interval,       \* DEFAULT_INTERVAL_S
    Margin,         \* DEFAULT_MARGIN_S
    Own,            \* the runtime refreshes one that expires within this itself
    Bridged,        \* the attempts that may fail in a row
    MaxInRow, MaxNow, MaxStops, MaxPlants

(* The defaults, in units of five minutes: 3, 12, 1 and 2.                  *)
ASSUME LoginAssumption ==
    /\ Lifetime \in Nat /\ Interval \in Nat \ {0} /\ Margin \in Nat /\ Own \in Nat /\ Bridged \in Nat
    /\ Lifetime > Margin /\ Margin >= (Bridged + 1) * Interval + Own

VARIABLES
    now, expires, planted,
    next,           \* when the refresher wakes
    up,             \* the application runs
    settled,        \* an attempt has succeeded since it started
    inRow,          \* the attempts that failed in a row
    stops, plants

loginVars == <<now, expires, planted, next, up, settled, inRow, stops, plants>>

LoginInit ==
    /\ now = 0 /\ expires \in (Own + 1) .. Lifetime /\ planted = FALSE
    /\ next = 0 /\ up = TRUE /\ settled = FALSE /\ inRow = 0 /\ stops = 0 /\ plants = 0

Left == IF expires > now THEN expires - now ELSE 0

-----------------------------------------------------------------------------
Tick ==
    /\ now < MaxNow
    /\ up => next > now
    /\ now' = now + 1
    /\ UNCHANGED <<expires, planted, next, up, settled, inRow, stops, plants>>

Due == up /\ now >= next

(* What is about to expire is refreshed by the runtime's own code.          *)
AboutToOwn == Left <= Own
AboutTo == Left <= Margin

Refreshes ==
    /\ Due /\ ~planted
    /\ expires' = IF AboutTo THEN now + Lifetime ELSE expires
    /\ inRow' = 0 /\ settled' = TRUE /\ next' = now + Interval
    /\ UNCHANGED <<now, planted, up, stops, plants>>

(* The provider does not answer, the script takes too long, or the file     *)
(* holds a value that must not be resolved: said in the log, and tried      *)
(* again.                                                                   *)
Fails ==
    /\ Due /\ (planted \/ inRow < MaxInRow)
    /\ inRow' = IF inRow < MaxInRow THEN inRow + 1 ELSE inRow
    /\ next' = now + Interval
    /\ UNCHANGED <<now, expires, planted, up, settled, stops, plants>>

(* The script cannot be started at all: the loop ends with the error, and   *)
(* is started again.                                                        *)
Crashes ==
    /\ Due /\ ~planted /\ inRow < MaxInRow
    /\ inRow' = inRow + 1 /\ next' = now + 1
    /\ UNCHANGED <<now, expires, planted, up, settled, stops, plants>>

(* Something unconfined writes a value the runtime would execute; a person  *)
(* logs in again.                                                           *)
Plant ==
    /\ plants < MaxPlants /\ ~planted
    /\ planted' = TRUE /\ plants' = plants + 1
    /\ UNCHANGED <<now, expires, next, up, settled, inRow, stops>>

LogsIn ==
    /\ planted
    /\ planted' = FALSE /\ expires' = now + Lifetime
    /\ UNCHANGED <<now, next, up, settled, inRow, stops, plants>>

Stops ==
    /\ up /\ stops < MaxStops
    /\ up' = FALSE /\ stops' = stops + 1 /\ inRow' = 0
    /\ UNCHANGED <<now, expires, planted, next, settled, plants>>

Starts ==
    /\ ~up
    /\ up' = TRUE /\ next' = now /\ settled' = FALSE
    /\ UNCHANGED <<now, expires, planted, inRow, stops, plants>>

LoginNext == Tick \/ Refreshes \/ Fails \/ Crashes \/ Plant \/ LogsIn \/ Stops \/ Starts

LoginSpec == LoginInit /\ [][LoginNext]_loginVars

-----------------------------------------------------------------------------
(* From the first attempt that succeeds until the application stops, a      *)
(* process that may only read the login finds one it need not refresh -     *)
(* also when Bridged attempts in a row fail.                                *)
LoginIsUsable == (up /\ settled /\ ~planted /\ inRow <= Bridged) => Left > Own

(* Not kept by the code: the same from the moment the application is up.    *)
(* The gateways start beside the refresher, and what expired while it was   *)
(* stopped is found by the first turn.                                      *)
UsableFromTheStart == (up /\ ~planted /\ inRow <= Bridged) => Left > Own
=============================================================================
