------------------------- MODULE CongestionControl -------------------------
(***************************************************************************)
(* The per-transfer congestion controller of congestion.c: the CongestCtrl *)
(* fields the controller reads and writes, and its three entry points as   *)
(* operators from a controller record to a controller record.  The server *)
(* engine (BtServer) applies them inside its ACK and timeout handlers.    *)
(*                                                                         *)
(* Time is abstracted.  The only use of the clock that changes control is  *)
(* congestion_avoidance(): wind_size := start_wind_size +                  *)
(* (now - rtt_timer) / rtt, which is non-decreasing while the transfer     *)
(* stays in CA mode.  The caller therefore supplies the new window as a   *)
(* choice from CAWindows(cc); MaxWind names the bound on elapsed time.    *)
(* The rtt = 0 branch of slow_start() is dead code: create_transfer()      *)
(* sets rtt to the fixed RTT of 200 ms and nothing ever clears it.         *)
(***************************************************************************)
EXTENDS Naturals

CONSTANTS
    DEFAULT_SS_THRESH,  \* initial slow-start threshold (64 in congestion.h)
    MaxWind             \* bound on the window reachable by CA growth over time

ASSUME DEFAULT_SS_THRESH \in Nat \ {0}
ASSUME MaxWind \in Nat /\ MaxWind >= DEFAULT_SS_THRESH

CongestModes == {"SS", "CA"}

CCtrl == [mode: CongestModes, wind: Nat \ {0}, ssthresh: Nat \ {0, 1},
          start_wind: Nat \ {0}]

(* The congestion fields as create_transfer() initialises them.            *)
InitCCtrl == [mode |-> "SS", wind |-> 1, ssthresh |-> DEFAULT_SS_THRESH,
              start_wind |-> 1]

(* slow_start(): double the window below ssthresh, else enter CA and       *)
(* record the window at entry.                                             *)
SlowStart(cc) ==
    IF cc.wind < cc.ssthresh
    THEN [cc EXCEPT !.wind = 2 * cc.wind]
    ELSE [cc EXCEPT !.mode = "CA", !.start_wind = cc.wind]

(* The windows congestion_avoidance() can compute at a later ACK: at least *)
(* the current one, since the elapsed time since CA entry only grows.      *)
CAWindows(cc) == cc.wind .. (IF cc.wind > MaxWind THEN cc.wind ELSE MaxWind)

(* congestion_avoidance() with the window the clock yields now.            *)
CongestionAvoidance(cc, w) == [cc EXCEPT !.wind = w]

(* congestion_control(): dispatch on the mode.  w is ignored in SS.        *)
CongestionControl(cc, w) ==
    IF cc.mode = "SS" THEN SlowStart(cc) ELSE CongestionAvoidance(cc, w)

MaxOf(a, b) == IF a < b THEN b ELSE a

(* detected_first_loss(): ssthresh := MAX(wind/2, 2); SS goes to CA with   *)
(* the window unchanged, CA falls back to SS with a window of 1.           *)
DetectedFirstLoss(cc) ==
    LET th == MaxOf(cc.wind \div 2, 2) IN
    IF cc.mode = "SS"
    THEN [cc EXCEPT !.ssthresh = th, !.mode = "CA", !.start_wind = cc.wind]
    ELSE [cc EXCEPT !.ssthresh = th, !.wind = 1, !.mode = "SS"]
=============================================================================
