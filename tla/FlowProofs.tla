----------------------------- MODULE FlowProofs -----------------------------
(***************************************************************************)
(* Theorems about SignFlow, for any number of clicks, any clocks, secrets  *)
(* and faults.                                                             *)
(***************************************************************************)
EXTENDS SignFlow, TLAPS

(* Types are preserved. *)
LEMMA FlowTypeStep ==
    ASSUME FlowTypeOK, [Flow]_flowVars
    PROVE  FlowTypeOK'
<1> USE FlowAssumption DEF FlowTypeOK, Calls, flowVars, clockVars, secretVars,
        sessionVars, finalVars, handVars, siteRest
<1>1. ASSUME NEW c \in Clicks, Click(c) PROVE FlowTypeOK'
  BY <1>1 DEF Click, Page
<1>2. ASSUME NEW c \in Clicks, ReadSecret(c) PROVE FlowTypeOK'
  BY <1>2 DEF ReadSecret, Page
<1>3. ASSUME NEW c \in Clicks, Prepare(c) PROVE FlowTypeOK'
  BY <1>3 DEF Prepare, Page
<1>4. ASSUME NEW c \in Clicks, PrepareFails(c) PROVE FlowTypeOK'
  BY <1>4 DEF PrepareFails, Page
<1>5. ASSUME NEW c \in Clicks, EnterPin(c) PROVE FlowTypeOK'
  BY <1>5 DEF EnterPin, Page, Bridge
<1>6. ASSUME NEW c \in Clicks, Gate(c) PROVE FlowTypeOK'
  BY <1>6 DEF Gate, Bridge
<1>7. ASSUME NEW c \in Clicks, TokenSigns(c) PROVE FlowTypeOK'
  BY <1>7 DEF TokenSigns, Bridge
<1>8. ASSUME NEW c \in Clicks, TokenFails(c) PROVE FlowTypeOK'
  BY <1>8 DEF TokenFails, Bridge
<1>9. ASSUME NEW c \in Clicks, SignAnswer(c) PROVE FlowTypeOK'
  BY <1>9 DEF SignAnswer, Page, Bridge
<1>10. ASSUME NEW c \in Clicks, SignRefused(c) PROVE FlowTypeOK'
  BY <1>10 DEF SignRefused, Page, Bridge
<1>11. ASSUME NEW c \in Clicks, SignResent(c) PROVE FlowTypeOK'
  BY <1>11 DEF SignResent, Bridge
<1>12. ASSUME NEW c \in Clicks, SignLost(c) PROVE FlowTypeOK'
  BY <1>12 DEF SignLost, Page, Bridge
<1>13. ASSUME NEW c \in Clicks, Finalize(c) PROVE FlowTypeOK'
  BY <1>13 DEF Finalize, Page, Work
<1>14. ASSUME NEW c \in Clicks, FinalAnswer(c) PROVE FlowTypeOK'
  BY <1>14 DEF FinalAnswer, Page
<1>15. ASSUME NEW c \in Clicks, FinalizeResent(c) PROVE FlowTypeOK'
  BY <1>15 DEF FinalizeResent, Work, Fault
<1>16. ASSUME NEW k \in Calls, ReadSession(k) PROVE FlowTypeOK'
  BY <1>16 DEF ReadSession, Work
<1>17. ASSUME NEW k \in Calls, FinalizeThrows(k) PROVE FlowTypeOK'
  BY <1>17 DEF FinalizeThrows, Work
<1>18. ASSUME NEW k \in Calls, SaveFile(k) PROVE FlowTypeOK'
  BY <1>18 DEF SaveFile, Work
<1>19. ASSUME NEW k \in Calls, DeleteSession(k) PROVE FlowTypeOK'
  BY <1>19 DEF DeleteSession, Work
<1>20. ASSUME NEW k \in Calls, LogAction(k) PROVE FlowTypeOK'
  BY <1>20 DEF LogAction, Work
<1>21. ASSUME NEW k \in Calls, LogFails(k) PROVE FlowTypeOK'
  BY <1>21 DEF LogFails, Work
<1>22. ASSUME NEW k \in Calls, Commit(k) PROVE FlowTypeOK'
  BY <1>22 DEF Commit, Work
<1>23. ASSUME NEW k \in Calls, Succeed(k) PROVE FlowTypeOK'
  BY <1>23 DEF Succeed, Work
<1>24. ASSUME NEW k \in Calls, WorkerStops(k) PROVE FlowTypeOK'
  BY <1>24 DEF WorkerStops, Fault
<1>25. ASSUME NEW k \in Calls, LogRollsBack(k) PROVE FlowTypeOK'
  BY <1>25 DEF LogRollsBack, Fault, Work
<1>26. ASSUME BridgeStops PROVE FlowTypeOK'
  BY <1>26 DEF BridgeStops, Fault
<1>27. ASSUME Tick PROVE FlowTypeOK'
  BY <1>27 DEF Tick
<1>28. ASSUME ChangeSecret PROVE FlowTypeOK'
  BY <1>28 DEF ChangeSecret, Fault
<1>29. ASSUME PairBridge PROVE FlowTypeOK'
  BY <1>29 DEF PairBridge
<1>30. ASSUME LoseTmp PROVE FlowTypeOK'
  BY <1>30 DEF LoseTmp, Fault
<1>31. CASE UNCHANGED flowVars
  BY <1>31 DEF flowVars, clockVars, secretVars, sessionVars, finalVars, handVars, siteRest
<1> QED BY <1>1, <1>2, <1>3, <1>4, <1>5, <1>6, <1>7, <1>8, <1>9, <1>10, <1>11,
    <1>12, <1>13, <1>14, <1>15, <1>16, <1>17, <1>18, <1>19, <1>20, <1>21, <1>22,
    <1>23, <1>24, <1>25, <1>26, <1>27, <1>28, <1>29, <1>30, <1>31 DEF Flow,
    InitiateSign, HandleRequest, Browse, finalize_direct_sign

(* Every variable of SignFlow has its type, and every log row its file. *)
THEOREM FlowTypeCorrect == FlowSpec => []FlowTypeOK
<1>1. FlowInit => FlowTypeOK
  BY FlowAssumption DEF FlowInit, FlowTypeOK
<1> QED BY <1>1, FlowTypeStep, PTL DEF FlowSpec
-----------------------------------------------------------------------------
(* How far a page, its bridge and the site's worker may be from each other. *)
Later == {"sent", "signed", "final", "done", "failed"}

Abreast == \A c \in Clicks :
    /\ page[c] \in {"idle", "asking", "preparing"} => stamp[c] = -1
    /\ page[c] \in {"pin", "sent", "signed", "final", "done"} => stamp[c] # -1
    /\ bridge[c] # "none" => page[c] = "sent"
    /\ c \in verified \cup signed => page[c] \in Later
    /\ bridge[c] = "chain" => c \in signed
    /\ page[c] \in {"signed", "final", "done"} => c \in signed
    /\ typed[c] <= now

(* A session read by a worker was signed; it is out of the cache before its
   file is committed.                                                      *)
Finalizing == \A k \in Calls :
    /\ work[k] # "none" => k[1] \in signed
    /\ k \in files => work[k] # "none"
    /\ work[k] \in {"deleted", "unlogged"} \/ k \in files => k[1] \notin cached
    /\ work[k] \in {"committed", "ok"} => k \in files \cup undone

(* Abreast is inductive. *)
LEMMA AbreastStep ==
    ASSUME FlowTypeOK, Abreast, [Flow]_flowVars
    PROVE  Abreast'
<1> USE FlowAssumption DEF FlowTypeOK, Calls, Abreast, Later, flowVars,
        clockVars, secretVars, sessionVars, finalVars, handVars, siteRest
<1>1. ASSUME NEW c \in Clicks, Click(c) PROVE Abreast'
  BY <1>1 DEF Click, Page
<1>2. ASSUME NEW c \in Clicks, ReadSecret(c) PROVE Abreast'
  BY <1>2 DEF ReadSecret, Page
<1>3. ASSUME NEW c \in Clicks, Prepare(c) PROVE Abreast'
  BY <1>3 DEF Prepare, Page
<1>4. ASSUME NEW c \in Clicks, PrepareFails(c) PROVE Abreast'
  BY <1>4 DEF PrepareFails, Page
<1>5. ASSUME NEW c \in Clicks, EnterPin(c) PROVE Abreast'
  BY <1>5 DEF EnterPin, Page, Bridge
<1>6. ASSUME NEW c \in Clicks, Gate(c) PROVE Abreast'
  BY <1>6 DEF Gate, Bridge
<1>7. ASSUME NEW c \in Clicks, TokenSigns(c) PROVE Abreast'
  BY <1>7 DEF TokenSigns, Bridge
<1>8. ASSUME NEW c \in Clicks, TokenFails(c) PROVE Abreast'
  BY <1>8 DEF TokenFails, Bridge
<1>9. ASSUME NEW c \in Clicks, SignAnswer(c) PROVE Abreast'
  BY <1>9 DEF SignAnswer, Page, Bridge
<1>10. ASSUME NEW c \in Clicks, SignRefused(c) PROVE Abreast'
  BY <1>10 DEF SignRefused, Page, Bridge
<1>11. ASSUME NEW c \in Clicks, SignResent(c) PROVE Abreast'
  BY <1>11 DEF SignResent, Bridge
<1>12. ASSUME NEW c \in Clicks, SignLost(c) PROVE Abreast'
  BY <1>12 DEF SignLost, Page, Bridge
<1>13. ASSUME NEW c \in Clicks, Finalize(c) PROVE Abreast'
  BY <1>13 DEF Finalize, Page, Work
<1>14. ASSUME NEW c \in Clicks, FinalAnswer(c) PROVE Abreast'
  BY <1>14 DEF FinalAnswer, Page
<1>15. ASSUME NEW c \in Clicks, FinalizeResent(c) PROVE Abreast'
  BY <1>15 DEF FinalizeResent, Work, Fault
<1>16. ASSUME NEW k \in Calls, ReadSession(k) PROVE Abreast'
  BY <1>16 DEF ReadSession, Work
<1>17. ASSUME NEW k \in Calls, FinalizeThrows(k) PROVE Abreast'
  BY <1>17 DEF FinalizeThrows, Work
<1>18. ASSUME NEW k \in Calls, SaveFile(k) PROVE Abreast'
  BY <1>18 DEF SaveFile, Work
<1>19. ASSUME NEW k \in Calls, DeleteSession(k) PROVE Abreast'
  BY <1>19 DEF DeleteSession, Work
<1>20. ASSUME NEW k \in Calls, LogAction(k) PROVE Abreast'
  BY <1>20 DEF LogAction, Work
<1>21. ASSUME NEW k \in Calls, LogFails(k) PROVE Abreast'
  BY <1>21 DEF LogFails, Work
<1>22. ASSUME NEW k \in Calls, Commit(k) PROVE Abreast'
  BY <1>22 DEF Commit, Work
<1>23. ASSUME NEW k \in Calls, Succeed(k) PROVE Abreast'
  BY <1>23 DEF Succeed, Work
<1>24. ASSUME NEW k \in Calls, WorkerStops(k) PROVE Abreast'
  BY <1>24 DEF WorkerStops, Fault
<1>25. ASSUME NEW k \in Calls, LogRollsBack(k) PROVE Abreast'
  BY <1>25 DEF LogRollsBack, Fault, Work
<1>26. ASSUME BridgeStops PROVE Abreast'
  BY <1>26 DEF BridgeStops, Fault
<1>27. ASSUME Tick PROVE Abreast'
  BY <1>27 DEF Tick
<1>28. ASSUME ChangeSecret PROVE Abreast'
  BY <1>28 DEF ChangeSecret, Fault
<1>29. ASSUME PairBridge PROVE Abreast'
  BY <1>29 DEF PairBridge
<1>30. ASSUME LoseTmp PROVE Abreast'
  BY <1>30 DEF LoseTmp, Fault
<1>31. CASE UNCHANGED flowVars
  BY <1>31 DEF flowVars, clockVars, secretVars, sessionVars, finalVars, handVars, siteRest
<1> QED BY <1>1, <1>2, <1>3, <1>4, <1>5, <1>6, <1>7, <1>8, <1>9, <1>10, <1>11,
    <1>12, <1>13, <1>14, <1>15, <1>16, <1>17, <1>18, <1>19, <1>20, <1>21, <1>22,
    <1>23, <1>24, <1>25, <1>26, <1>27, <1>28, <1>29, <1>30, <1>31 DEF Flow,
    InitiateSign, HandleRequest, Browse, finalize_direct_sign

(* Finalizing is inductive with Abreast. *)
LEMMA FinalizingStep ==
    ASSUME FlowTypeOK, Abreast, Finalizing, [Flow]_flowVars
    PROVE  Finalizing'
<1> USE FlowAssumption DEF FlowTypeOK, Calls, Abreast, Finalizing, Later,
        flowVars, clockVars, secretVars, sessionVars, finalVars, handVars, siteRest
<1>1. ASSUME NEW c \in Clicks, Click(c) PROVE Finalizing'
  BY <1>1 DEF Click, Page
<1>2. ASSUME NEW c \in Clicks, ReadSecret(c) PROVE Finalizing'
  BY <1>2 DEF ReadSecret, Page
<1>3. ASSUME NEW c \in Clicks, Prepare(c) PROVE Finalizing'
  BY <1>3 DEF Prepare, Page
<1>4. ASSUME NEW c \in Clicks, PrepareFails(c) PROVE Finalizing'
  BY <1>4 DEF PrepareFails, Page
<1>5. ASSUME NEW c \in Clicks, EnterPin(c) PROVE Finalizing'
  BY <1>5 DEF EnterPin, Page, Bridge
<1>6. ASSUME NEW c \in Clicks, Gate(c) PROVE Finalizing'
  BY <1>6 DEF Gate, Bridge
<1>7. ASSUME NEW c \in Clicks, TokenSigns(c) PROVE Finalizing'
  BY <1>7 DEF TokenSigns, Bridge
<1>8. ASSUME NEW c \in Clicks, TokenFails(c) PROVE Finalizing'
  BY <1>8 DEF TokenFails, Bridge
<1>9. ASSUME NEW c \in Clicks, SignAnswer(c) PROVE Finalizing'
  BY <1>9 DEF SignAnswer, Page, Bridge
<1>10. ASSUME NEW c \in Clicks, SignRefused(c) PROVE Finalizing'
  BY <1>10 DEF SignRefused, Page, Bridge
<1>11. ASSUME NEW c \in Clicks, SignResent(c) PROVE Finalizing'
  BY <1>11 DEF SignResent, Bridge
<1>12. ASSUME NEW c \in Clicks, SignLost(c) PROVE Finalizing'
  BY <1>12 DEF SignLost, Page, Bridge
<1>13. ASSUME NEW c \in Clicks, Finalize(c) PROVE Finalizing'
  BY <1>13 DEF Finalize, Page, Work
<1>14. ASSUME NEW c \in Clicks, FinalAnswer(c) PROVE Finalizing'
  BY <1>14 DEF FinalAnswer, Page, LastCall
<1>15. ASSUME NEW c \in Clicks, FinalizeResent(c) PROVE Finalizing'
  BY <1>15 DEF FinalizeResent, Work, Fault
<1>16. ASSUME NEW k \in Calls, ReadSession(k) PROVE Finalizing'
  BY <1>16 DEF ReadSession, Work
<1>17. ASSUME NEW k \in Calls, FinalizeThrows(k) PROVE Finalizing'
  BY <1>17 DEF FinalizeThrows, Work
<1>18. ASSUME NEW k \in Calls, SaveFile(k) PROVE Finalizing'
  BY <1>18 DEF SaveFile, Work
<1>19. ASSUME NEW k \in Calls, DeleteSession(k) PROVE Finalizing'
  BY <1>19 DEF DeleteSession, Work
<1>20. ASSUME NEW k \in Calls, LogAction(k) PROVE Finalizing'
  BY <1>20 DEF LogAction, Work
<1>21. ASSUME NEW k \in Calls, LogFails(k) PROVE Finalizing'
  BY <1>21 DEF LogFails, Work
<1>22. ASSUME NEW k \in Calls, Commit(k) PROVE Finalizing'
  BY <1>22 DEF Commit, Work
<1>23. ASSUME NEW k \in Calls, Succeed(k) PROVE Finalizing'
  BY <1>23 DEF Succeed, Work
<1>24. ASSUME NEW k \in Calls, WorkerStops(k) PROVE Finalizing'
  BY <1>24 DEF WorkerStops, Fault
<1>25. ASSUME NEW k \in Calls, LogRollsBack(k) PROVE Finalizing'
  BY <1>25 DEF LogRollsBack, Fault, Work
<1>26. ASSUME BridgeStops PROVE Finalizing'
  BY <1>26 DEF BridgeStops, Fault
<1>27. ASSUME Tick PROVE Finalizing'
  BY <1>27 DEF Tick
<1>28. ASSUME ChangeSecret PROVE Finalizing'
  BY <1>28 DEF ChangeSecret, Fault
<1>29. ASSUME PairBridge PROVE Finalizing'
  BY <1>29 DEF PairBridge
<1>30. ASSUME LoseTmp PROVE Finalizing'
  BY <1>30 DEF LoseTmp, Fault
<1>31. CASE UNCHANGED flowVars
  BY <1>31 DEF flowVars, clockVars, secretVars, sessionVars, finalVars, handVars, siteRest
<1> QED BY <1>1, <1>2, <1>3, <1>4, <1>5, <1>6, <1>7, <1>8, <1>9, <1>10, <1>11,
    <1>12, <1>13, <1>14, <1>15, <1>16, <1>17, <1>18, <1>19, <1>20, <1>21, <1>22,
    <1>23, <1>24, <1>25, <1>26, <1>27, <1>28, <1>29, <1>30, <1>31 DEF Flow,
    InitiateSign, HandleRequest, Browse, finalize_direct_sign

FlowInv == FlowTypeOK /\ Abreast /\ Finalizing

(* The invariant of the flow holds in every behaviour. (finalize_direct_sign) *)
LEMMA FlowInvariant == FlowSpec => []FlowInv
<1>1. FlowInit => FlowInv
  BY FlowAssumption
  DEF FlowInit, FlowInv, FlowTypeOK, Abreast, Finalizing, Calls
<1>2. FlowInv /\ [Flow]_flowVars => FlowInv'
  BY FlowTypeStep, AbreastStep, FinalizingStep DEF FlowInv
<1> QED BY <1>1, <1>2, PTL DEF FlowSpec
-----------------------------------------------------------------------------
(* The bound holds from the moment the MAC is checked. *)
CheckedInWindow ==
    \A c \in verified :
        /\ typed[c] + skew <= stamp[c] + Window
        /\ now + skew >= stamp[c] - Window

(* CheckedInWindow is inductive with Abreast. *)
LEMMA WindowStep ==
    ASSUME FlowTypeOK, Abreast, CheckedInWindow, [Flow]_flowVars
    PROVE  CheckedInWindow'
<1> USE FlowAssumption DEF FlowTypeOK, Calls, Abreast, Later, CheckedInWindow,
        flowVars, clockVars, secretVars, sessionVars, finalVars, handVars, siteRest
<1>1. ASSUME NEW c \in Clicks, Click(c) PROVE CheckedInWindow'
  BY <1>1 DEF Click, Page
<1>2. ASSUME NEW c \in Clicks, ReadSecret(c) PROVE CheckedInWindow'
  BY <1>2 DEF ReadSecret, Page
<1>3. ASSUME NEW c \in Clicks, Prepare(c) PROVE CheckedInWindow'
  BY <1>3 DEF Prepare, Page
<1>4. ASSUME NEW c \in Clicks, PrepareFails(c) PROVE CheckedInWindow'
  BY <1>4 DEF PrepareFails, Page
<1>5. ASSUME NEW c \in Clicks, EnterPin(c) PROVE CheckedInWindow'
  BY <1>5 DEF EnterPin, Page, Bridge
<1>6. ASSUME NEW c \in Clicks, Gate(c) PROVE CheckedInWindow'
  BY <1>6 DEF Gate, Bridge, verifyHMAC, InWindow
<1>7. ASSUME NEW c \in Clicks, TokenSigns(c) PROVE CheckedInWindow'
  BY <1>7 DEF TokenSigns, Bridge
<1>8. ASSUME NEW c \in Clicks, TokenFails(c) PROVE CheckedInWindow'
  BY <1>8 DEF TokenFails, Bridge
<1>9. ASSUME NEW c \in Clicks, SignAnswer(c) PROVE CheckedInWindow'
  BY <1>9 DEF SignAnswer, Page, Bridge
<1>10. ASSUME NEW c \in Clicks, SignRefused(c) PROVE CheckedInWindow'
  BY <1>10 DEF SignRefused, Page, Bridge
<1>11. ASSUME NEW c \in Clicks, SignResent(c) PROVE CheckedInWindow'
  BY <1>11 DEF SignResent, Bridge
<1>12. ASSUME NEW c \in Clicks, SignLost(c) PROVE CheckedInWindow'
  BY <1>12 DEF SignLost, Page, Bridge
<1>13. ASSUME NEW c \in Clicks, Finalize(c) PROVE CheckedInWindow'
  BY <1>13 DEF Finalize, Page, Work
<1>14. ASSUME NEW c \in Clicks, FinalAnswer(c) PROVE CheckedInWindow'
  BY <1>14 DEF FinalAnswer, Page
<1>15. ASSUME NEW c \in Clicks, FinalizeResent(c) PROVE CheckedInWindow'
  BY <1>15 DEF FinalizeResent, Work, Fault
<1>16. ASSUME NEW k \in Calls, ReadSession(k) PROVE CheckedInWindow'
  BY <1>16 DEF ReadSession, Work
<1>17. ASSUME NEW k \in Calls, FinalizeThrows(k) PROVE CheckedInWindow'
  BY <1>17 DEF FinalizeThrows, Work
<1>18. ASSUME NEW k \in Calls, SaveFile(k) PROVE CheckedInWindow'
  BY <1>18 DEF SaveFile, Work
<1>19. ASSUME NEW k \in Calls, DeleteSession(k) PROVE CheckedInWindow'
  BY <1>19 DEF DeleteSession, Work
<1>20. ASSUME NEW k \in Calls, LogAction(k) PROVE CheckedInWindow'
  BY <1>20 DEF LogAction, Work
<1>21. ASSUME NEW k \in Calls, LogFails(k) PROVE CheckedInWindow'
  BY <1>21 DEF LogFails, Work
<1>22. ASSUME NEW k \in Calls, Commit(k) PROVE CheckedInWindow'
  BY <1>22 DEF Commit, Work
<1>23. ASSUME NEW k \in Calls, Succeed(k) PROVE CheckedInWindow'
  BY <1>23 DEF Succeed, Work
<1>24. ASSUME NEW k \in Calls, WorkerStops(k) PROVE CheckedInWindow'
  BY <1>24 DEF WorkerStops, Fault
<1>25. ASSUME NEW k \in Calls, LogRollsBack(k) PROVE CheckedInWindow'
  BY <1>25 DEF LogRollsBack, Fault, Work
<1>26. ASSUME BridgeStops PROVE CheckedInWindow'
  BY <1>26 DEF BridgeStops, Fault
<1>27. ASSUME Tick PROVE CheckedInWindow'
  BY <1>27 DEF Tick
<1>28. ASSUME ChangeSecret PROVE CheckedInWindow'
  BY <1>28 DEF ChangeSecret, Fault
<1>29. ASSUME PairBridge PROVE CheckedInWindow'
  BY <1>29 DEF PairBridge
<1>30. ASSUME LoseTmp PROVE CheckedInWindow'
  BY <1>30 DEF LoseTmp, Fault
<1>31. CASE UNCHANGED flowVars
  BY <1>31 DEF flowVars, clockVars, secretVars, sessionVars, finalVars, handVars, siteRest
<1> QED BY <1>1, <1>2, <1>3, <1>4, <1>5, <1>6, <1>7, <1>8, <1>9, <1>10, <1>11,
    <1>12, <1>13, <1>14, <1>15, <1>16, <1>17, <1>18, <1>19, <1>20, <1>21, <1>22,
    <1>23, <1>24, <1>25, <1>26, <1>27, <1>28, <1>29, <1>30, <1>31 DEF Flow,
    InitiateSign, HandleRequest, Browse, finalize_direct_sign

(* A MAC is worth what the bridge's clock says: a PIN typed after the window
   signs nothing, and a clock behind by more than the window signs nothing. *)
THEOREM SignedInWindowAlways == FlowSpec => []SignedInWindow
<1>1. FlowInit => CheckedInWindow
  BY DEF FlowInit, CheckedInWindow
<1>2. FlowInv /\ CheckedInWindow /\ [Flow]_flowVars => CheckedInWindow'
  BY WindowStep DEF FlowInv
<1>3. CheckedInWindow => SignedInWindow
  BY DEF CheckedInWindow, SignedInWindow
<1> QED BY <1>1, <1>2, <1>3, FlowInvariant, PTL DEF FlowSpec
-----------------------------------------------------------------------------
(* DoneMeansAttached is inductive with Finalizing. *)
LEMMA DoneStep ==
    ASSUME FlowTypeOK, Finalizing, DoneMeansAttached, [Flow]_flowVars
    PROVE  DoneMeansAttached'
<1> USE FlowAssumption DEF FlowTypeOK, Calls, Finalizing, DoneMeansAttached,
        flowVars, clockVars, secretVars, sessionVars, finalVars, handVars, siteRest
<1>1. ASSUME NEW c \in Clicks, Click(c) PROVE DoneMeansAttached'
  BY <1>1 DEF Click, Page
<1>2. ASSUME NEW c \in Clicks, ReadSecret(c) PROVE DoneMeansAttached'
  BY <1>2 DEF ReadSecret, Page
<1>3. ASSUME NEW c \in Clicks, Prepare(c) PROVE DoneMeansAttached'
  BY <1>3 DEF Prepare, Page
<1>4. ASSUME NEW c \in Clicks, PrepareFails(c) PROVE DoneMeansAttached'
  BY <1>4 DEF PrepareFails, Page
<1>5. ASSUME NEW c \in Clicks, EnterPin(c) PROVE DoneMeansAttached'
  BY <1>5 DEF EnterPin, Page, Bridge
<1>6. ASSUME NEW c \in Clicks, Gate(c) PROVE DoneMeansAttached'
  BY <1>6 DEF Gate, Bridge
<1>7. ASSUME NEW c \in Clicks, TokenSigns(c) PROVE DoneMeansAttached'
  BY <1>7 DEF TokenSigns, Bridge
<1>8. ASSUME NEW c \in Clicks, TokenFails(c) PROVE DoneMeansAttached'
  BY <1>8 DEF TokenFails, Bridge
<1>9. ASSUME NEW c \in Clicks, SignAnswer(c) PROVE DoneMeansAttached'
  BY <1>9 DEF SignAnswer, Page, Bridge
<1>10. ASSUME NEW c \in Clicks, SignRefused(c) PROVE DoneMeansAttached'
  BY <1>10 DEF SignRefused, Page, Bridge
<1>11. ASSUME NEW c \in Clicks, SignResent(c) PROVE DoneMeansAttached'
  BY <1>11 DEF SignResent, Bridge
<1>12. ASSUME NEW c \in Clicks, SignLost(c) PROVE DoneMeansAttached'
  BY <1>12 DEF SignLost, Page, Bridge
<1>13. ASSUME NEW c \in Clicks, Finalize(c) PROVE DoneMeansAttached'
  BY <1>13 DEF Finalize, Page, Work
<1>14. ASSUME NEW c \in Clicks, FinalAnswer(c) PROVE DoneMeansAttached'
  BY <1>14 DEF FinalAnswer, Page, LastCall
<1>15. ASSUME NEW c \in Clicks, FinalizeResent(c) PROVE DoneMeansAttached'
  BY <1>15 DEF FinalizeResent, Work, Fault
<1>16. ASSUME NEW k \in Calls, ReadSession(k) PROVE DoneMeansAttached'
  BY <1>16 DEF ReadSession, Work
<1>17. ASSUME NEW k \in Calls, FinalizeThrows(k) PROVE DoneMeansAttached'
  BY <1>17 DEF FinalizeThrows, Work
<1>18. ASSUME NEW k \in Calls, SaveFile(k) PROVE DoneMeansAttached'
  BY <1>18 DEF SaveFile, Work
<1>19. ASSUME NEW k \in Calls, DeleteSession(k) PROVE DoneMeansAttached'
  BY <1>19 DEF DeleteSession, Work
<1>20. ASSUME NEW k \in Calls, LogAction(k) PROVE DoneMeansAttached'
  BY <1>20 DEF LogAction, Work
<1>21. ASSUME NEW k \in Calls, LogFails(k) PROVE DoneMeansAttached'
  BY <1>21 DEF LogFails, Work
<1>22. ASSUME NEW k \in Calls, Commit(k) PROVE DoneMeansAttached'
  BY <1>22 DEF Commit, Work
<1>23. ASSUME NEW k \in Calls, Succeed(k) PROVE DoneMeansAttached'
  BY <1>23 DEF Succeed, Work
<1>24. ASSUME NEW k \in Calls, WorkerStops(k) PROVE DoneMeansAttached'
  BY <1>24 DEF WorkerStops, Fault
<1>25. ASSUME NEW k \in Calls, LogRollsBack(k) PROVE DoneMeansAttached'
  BY <1>25 DEF LogRollsBack, Fault, Work
<1>26. ASSUME BridgeStops PROVE DoneMeansAttached'
  BY <1>26 DEF BridgeStops, Fault
<1>27. ASSUME Tick PROVE DoneMeansAttached'
  BY <1>27 DEF Tick
<1>28. ASSUME ChangeSecret PROVE DoneMeansAttached'
  BY <1>28 DEF ChangeSecret, Fault
<1>29. ASSUME PairBridge PROVE DoneMeansAttached'
  BY <1>29 DEF PairBridge
<1>30. ASSUME LoseTmp PROVE DoneMeansAttached'
  BY <1>30 DEF LoseTmp, Fault
<1>31. CASE UNCHANGED flowVars
  BY <1>31 DEF flowVars, clockVars, secretVars, sessionVars, finalVars, handVars, siteRest
<1> QED BY <1>1, <1>2, <1>3, <1>4, <1>5, <1>6, <1>7, <1>8, <1>9, <1>10, <1>11,
    <1>12, <1>13, <1>14, <1>15, <1>16, <1>17, <1>18, <1>19, <1>20, <1>21, <1>22,
    <1>23, <1>24, <1>25, <1>26, <1>27, <1>28, <1>29, <1>30, <1>31 DEF Flow,
    InitiateSign, HandleRequest, Browse, finalize_direct_sign

(* A page that reports success has its file, unless the database undid it. *)
THEOREM DoneIsAttached == FlowSpec => []DoneMeansAttached
<1>1. FlowInit => DoneMeansAttached
  BY DEF FlowInit, DoneMeansAttached
<1>2. FlowInv /\ DoneMeansAttached /\ [Flow]_flowVars => DoneMeansAttached'
  BY DoneStep DEF FlowInv
<1> QED BY <1>1, <1>2, FlowInvariant, PTL DEF FlowSpec
-----------------------------------------------------------------------------
(* SessionNotWasted is inductive. *)
LEMMA SessionStep ==
    ASSUME FlowTypeOK, Abreast, SessionNotWasted, [Flow]_flowVars
    PROVE  SessionNotWasted'
<1> USE FlowAssumption DEF FlowTypeOK, Calls, Abreast, SessionNotWasted,
        AboutToAttach, flowVars, clockVars, secretVars, sessionVars, finalVars,
        handVars, siteRest
<1>1. ASSUME NEW c \in Clicks, Click(c) PROVE SessionNotWasted'
  BY <1>1 DEF Click, Page
<1>2. ASSUME NEW c \in Clicks, ReadSecret(c) PROVE SessionNotWasted'
  BY <1>2 DEF ReadSecret, Page
<1>3. ASSUME NEW c \in Clicks, Prepare(c) PROVE SessionNotWasted'
  BY <1>3 DEF Prepare, Page
<1>4. ASSUME NEW c \in Clicks, PrepareFails(c) PROVE SessionNotWasted'
  BY <1>4 DEF PrepareFails, Page
<1>5. ASSUME NEW c \in Clicks, EnterPin(c) PROVE SessionNotWasted'
  BY <1>5 DEF EnterPin, Page, Bridge
<1>6. ASSUME NEW c \in Clicks, Gate(c) PROVE SessionNotWasted'
  BY <1>6 DEF Gate, Bridge
<1>7. ASSUME NEW c \in Clicks, TokenSigns(c) PROVE SessionNotWasted'
  BY <1>7 DEF TokenSigns, Bridge
<1>8. ASSUME NEW c \in Clicks, TokenFails(c) PROVE SessionNotWasted'
  BY <1>8 DEF TokenFails, Bridge
<1>9. ASSUME NEW c \in Clicks, SignAnswer(c) PROVE SessionNotWasted'
  BY <1>9 DEF SignAnswer, Page, Bridge
<1>10. ASSUME NEW c \in Clicks, SignRefused(c) PROVE SessionNotWasted'
  BY <1>10 DEF SignRefused, Page, Bridge
<1>11. ASSUME NEW c \in Clicks, SignResent(c) PROVE SessionNotWasted'
  BY <1>11 DEF SignResent, Bridge
<1>12. ASSUME NEW c \in Clicks, SignLost(c) PROVE SessionNotWasted'
  BY <1>12 DEF SignLost, Page, Bridge
<1>13. ASSUME NEW c \in Clicks, Finalize(c) PROVE SessionNotWasted'
  BY <1>13 DEF Finalize, Page, Work
<1>14. ASSUME NEW c \in Clicks, FinalAnswer(c) PROVE SessionNotWasted'
  BY <1>14 DEF FinalAnswer, Page
<1>15. ASSUME NEW c \in Clicks, FinalizeResent(c) PROVE SessionNotWasted'
  BY <1>15 DEF FinalizeResent, Work, Fault
<1>16. ASSUME NEW k \in Calls, ReadSession(k) PROVE SessionNotWasted'
  BY <1>16 DEF ReadSession, Work
<1>17. ASSUME NEW k \in Calls, FinalizeThrows(k) PROVE SessionNotWasted'
  BY <1>17 DEF FinalizeThrows, Work
<1>18. ASSUME NEW k \in Calls, SaveFile(k) PROVE SessionNotWasted'
  BY <1>18 DEF SaveFile, Work
<1>19. ASSUME NEW k \in Calls, DeleteSession(k) PROVE SessionNotWasted'
  BY <1>19 DEF DeleteSession, Work
<1>20. ASSUME NEW k \in Calls, LogAction(k) PROVE SessionNotWasted'
  BY <1>20 DEF LogAction, Work
<1>21. ASSUME NEW k \in Calls, LogFails(k) PROVE SessionNotWasted'
  BY <1>21 DEF LogFails, Work
<1>22. ASSUME NEW k \in Calls, Commit(k) PROVE SessionNotWasted'
  BY <1>22 DEF Commit, Work
<1>23. ASSUME NEW k \in Calls, Succeed(k) PROVE SessionNotWasted'
  BY <1>23 DEF Succeed, Work
<1>24. ASSUME NEW k \in Calls, WorkerStops(k) PROVE SessionNotWasted'
  BY <1>24 DEF WorkerStops, Fault
<1>25. ASSUME NEW k \in Calls, LogRollsBack(k) PROVE SessionNotWasted'
  BY <1>25 DEF LogRollsBack, Fault, Work
<1>26. ASSUME BridgeStops PROVE SessionNotWasted'
  BY <1>26 DEF BridgeStops, Fault
<1>27. ASSUME Tick PROVE SessionNotWasted'
  BY <1>27 DEF Tick
<1>28. ASSUME ChangeSecret PROVE SessionNotWasted'
  BY <1>28 DEF ChangeSecret, Fault
<1>29. ASSUME PairBridge PROVE SessionNotWasted'
  BY <1>29 DEF PairBridge
<1>30. ASSUME LoseTmp PROVE SessionNotWasted'
  BY <1>30 DEF LoseTmp, Fault
<1>31. CASE UNCHANGED flowVars
  BY <1>31 DEF flowVars, clockVars, secretVars, sessionVars, finalVars, handVars, siteRest
<1> QED BY <1>1, <1>2, <1>3, <1>4, <1>5, <1>6, <1>7, <1>8, <1>9, <1>10, <1>11,
    <1>12, <1>13, <1>14, <1>15, <1>16, <1>17, <1>18, <1>19, <1>20, <1>21, <1>22,
    <1>23, <1>24, <1>25, <1>26, <1>27, <1>28, <1>29, <1>30, <1>31 DEF Flow,
    InitiateSign, HandleRequest, Browse, finalize_direct_sign

(* A session is used up by a file and by nothing else but a stop. *)
THEOREM SessionKept == FlowSpec => []SessionNotWasted
<1>1. FlowInit => SessionNotWasted
  BY DEF FlowInit, SessionNotWasted
<1>2. FlowInv /\ SessionNotWasted /\ [Flow]_flowVars => SessionNotWasted'
  BY SessionStep DEF FlowInv
<1> QED BY <1>1, <1>2, FlowInvariant, PTL DEF FlowSpec
-----------------------------------------------------------------------------
(* Every step of SignFlow is one of SignedFiles or changes nothing of it. *)
LEMMA FilesStep ==
    ASSUME FlowInv, [Flow]_flowVars
    PROVE  [F!FilesNext]_F!fileVars
<1> USE FlowAssumption DEF FlowInv, FlowTypeOK, Calls, Abreast, Finalizing,
        F!FilesNext, F!fileVars, F!Prepare, F!SignSession, F!Open, F!Close, F!Attach,
        flowVars, clockVars, secretVars, sessionVars, finalVars, handVars, siteRest
<1>1. ASSUME NEW c \in Clicks, Click(c) PROVE [F!FilesNext]_F!fileVars
  BY <1>1 DEF Click, Page
<1>2. ASSUME NEW c \in Clicks, ReadSecret(c) PROVE [F!FilesNext]_F!fileVars
  BY <1>2 DEF ReadSecret, Page
<1>3. ASSUME NEW c \in Clicks, Prepare(c) PROVE [F!FilesNext]_F!fileVars
  BY <1>3 DEF Prepare, Page
<1>4. ASSUME NEW c \in Clicks, PrepareFails(c) PROVE [F!FilesNext]_F!fileVars
  BY <1>4 DEF PrepareFails, Page
<1>5. ASSUME NEW c \in Clicks, EnterPin(c) PROVE [F!FilesNext]_F!fileVars
  BY <1>5 DEF EnterPin, Page, Bridge
<1>6. ASSUME NEW c \in Clicks, Gate(c) PROVE [F!FilesNext]_F!fileVars
  BY <1>6 DEF Gate, Bridge
<1>7. ASSUME NEW c \in Clicks, TokenSigns(c) PROVE [F!FilesNext]_F!fileVars
  BY <1>7 DEF TokenSigns, Bridge
<1>8. ASSUME NEW c \in Clicks, TokenFails(c) PROVE [F!FilesNext]_F!fileVars
  BY <1>8 DEF TokenFails, Bridge
<1>9. ASSUME NEW c \in Clicks, SignAnswer(c) PROVE [F!FilesNext]_F!fileVars
  BY <1>9 DEF SignAnswer, Page, Bridge
<1>10. ASSUME NEW c \in Clicks, SignRefused(c) PROVE [F!FilesNext]_F!fileVars
  BY <1>10 DEF SignRefused, Page, Bridge
<1>11. ASSUME NEW c \in Clicks, SignResent(c) PROVE [F!FilesNext]_F!fileVars
  BY <1>11 DEF SignResent, Bridge
<1>12. ASSUME NEW c \in Clicks, SignLost(c) PROVE [F!FilesNext]_F!fileVars
  BY <1>12 DEF SignLost, Page, Bridge
<1>13. ASSUME NEW c \in Clicks, Finalize(c) PROVE [F!FilesNext]_F!fileVars
  BY <1>13 DEF Finalize, Page, Work
<1>14. ASSUME NEW c \in Clicks, FinalAnswer(c) PROVE [F!FilesNext]_F!fileVars
  BY <1>14 DEF FinalAnswer, Page
<1>15. ASSUME NEW c \in Clicks, FinalizeResent(c)
       PROVE  [F!FilesNext]_F!fileVars
  <2>1. <<c, 2>> \in Calls
    OBVIOUS
  <2> DEFINE r == <<c, 2>>
  <2>2. r \in Calls /\ work[r] = "none" /\ work' = [work EXCEPT ![r] = "sent"]
    BY <1>15, <2>1 DEF FinalizeResent, Work
  <2>3. UNCHANGED <<stamp, signed, files>>
    BY <1>15 DEF FinalizeResent
  <2> HIDE DEF r
  <2>4. UNCHANGED F!fileVars
    BY <2>2, <2>3
  <2> QED BY <2>4
<1>16. ASSUME NEW k \in Calls, ReadSession(k) PROVE [F!FilesNext]_F!fileVars
  <2>1. CASE InCache(k[1]) /\ k[1] \in tmp
    <3>1. k[1] \in signed /\ \A a \in files : a[1] # k[1]
      BY <1>16, <2>1 DEF ReadSession, Work, InCache
    <3>2. F!Open(k)
      BY <1>16, <2>1, <3>1 DEF ReadSession, Work
    <3> QED BY <3>2
  <2>2. CASE ~(InCache(k[1]) /\ k[1] \in tmp)
    BY <1>16, <2>2 DEF ReadSession, Work
  <2> QED BY <2>1, <2>2
<1>17. ASSUME NEW k \in Calls, FinalizeThrows(k) PROVE [F!FilesNext]_F!fileVars
  BY <1>17 DEF FinalizeThrows, Work
<1>18. ASSUME NEW k \in Calls, SaveFile(k) PROVE [F!FilesNext]_F!fileVars
  BY <1>18 DEF SaveFile, Work
<1>19. ASSUME NEW k \in Calls, DeleteSession(k) PROVE [F!FilesNext]_F!fileVars
  BY <1>19 DEF DeleteSession, Work
<1>20. ASSUME NEW k \in Calls, LogAction(k) PROVE [F!FilesNext]_F!fileVars
  BY <1>20 DEF LogAction, Work
<1>21. ASSUME NEW k \in Calls, LogFails(k) PROVE [F!FilesNext]_F!fileVars
  BY <1>21 DEF LogFails, Work
<1>22. ASSUME NEW k \in Calls, Commit(k) PROVE [F!FilesNext]_F!fileVars
  BY <1>22 DEF Commit, Work
<1>23. ASSUME NEW k \in Calls, Succeed(k) PROVE [F!FilesNext]_F!fileVars
  BY <1>23 DEF Succeed, Work
<1>24. ASSUME NEW k \in Calls, WorkerStops(k) PROVE [F!FilesNext]_F!fileVars
  <2>1. F!Close(k)
    BY <1>24 DEF WorkerStops, Fault
  <2> QED BY <2>1
<1>25. ASSUME NEW k \in Calls, LogRollsBack(k) PROVE [F!FilesNext]_F!fileVars
  <2>1. F!Close(k)
    BY <1>25 DEF LogRollsBack, Fault, Work
  <2> QED BY <2>1
<1>26. ASSUME BridgeStops PROVE [F!FilesNext]_F!fileVars
  BY <1>26 DEF BridgeStops, Fault
<1>27. ASSUME Tick PROVE [F!FilesNext]_F!fileVars
  BY <1>27 DEF Tick
<1>28. ASSUME ChangeSecret PROVE [F!FilesNext]_F!fileVars
  BY <1>28 DEF ChangeSecret, Fault
<1>29. ASSUME PairBridge PROVE [F!FilesNext]_F!fileVars
  BY <1>29 DEF PairBridge
<1>30. ASSUME LoseTmp PROVE [F!FilesNext]_F!fileVars
  BY <1>30 DEF LoseTmp, Fault
<1>31. CASE UNCHANGED flowVars
  BY <1>31 DEF flowVars, clockVars, secretVars, sessionVars, finalVars, handVars, siteRest
<1> QED BY <1>1, <1>2, <1>3, <1>4, <1>5, <1>6, <1>7, <1>8, <1>9, <1>10, <1>11,
    <1>12, <1>13, <1>14, <1>15, <1>16, <1>17, <1>18, <1>19, <1>20, <1>21, <1>22,
    <1>23, <1>24, <1>25, <1>26, <1>27, <1>28, <1>29, <1>30, <1>31 DEF Flow,
    InitiateSign, HandleRequest, Browse, finalize_direct_sign

(* The button implements SignedFiles: a file only for a session prepared and
   signed, and no call after it attaches another.                          *)
THEOREM FlowImplementsSignedFiles == FlowSpec => ImplementsSignedFiles
<1>1. FlowInit => F!FilesInit
  BY DEF FlowInit, F!FilesInit, Calls
<1>2. FlowInv /\ [Flow]_flowVars => [F!FilesNext]_F!fileVars
  BY FilesStep
<1> QED BY <1>1, <1>2, FlowInvariant, PTL
    DEF FlowSpec, ImplementsSignedFiles, F!FilesSpec
=============================================================================
