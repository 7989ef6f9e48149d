-------------------------------- MODULE Screens --------------------------------
(***************************************************************************)
(* The pages of the browser that keep state of their own between the       *)
(* server's answers.  They share nothing with each other, so a behaviour   *)
(* is that of one page, chosen at the start.                               *)
(***************************************************************************)
EXTENDS Kitchen, Terminal, CountSheet

VARIABLE screen

screensVars == <<screen, kitchenVars, terminalVars, sheetVars>>

\* What a page that is not open would choose does not matter.
Init ==
  /\ screen \in {"kitchen", "terminal", "sheet"}
  /\ KitchenInit /\ TerminalInit /\ SheetInit
  /\ screen # "terminal" => shop = CHOOSE s \in Shops : TRUE
  /\ screen # "sheet" => ~blind

Next ==
  \/ screen = "kitchen" /\ KitchenNext /\ UNCHANGED <<screen, terminalVars, sheetVars>>
  \/ screen = "terminal" /\ TerminalNext /\ UNCHANGED <<screen, kitchenVars, sheetVars>>
  \/ screen = "sheet" /\ SheetNext /\ UNCHANGED <<screen, kitchenVars, terminalVars>>

\* While the display is used, its interval runs, the server answers and the
\* browser handles the answers.
KitchenFairness ==
  /\ WF_kitchenVars(screen = "kitchen" /\ Poll)
  /\ WF_kitchenVars(screen = "kitchen" /\ AnswerFetch)
  /\ WF_kitchenVars(screen = "kitchen" /\ ReceiveFetch)
  /\ \A h \in Hands : /\ WF_kitchenVars(screen = "kitchen" /\ ServeTap(h))
                       /\ WF_kitchenVars(screen = "kitchen" /\ SettleTap(h))

Spec == Init /\ [][Next]_screensVars /\ KitchenFairness
===============================================================================
