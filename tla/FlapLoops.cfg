SPECIFICATION Histories
CONSTANTS
 FLAP_WINDOW=4
 STABLE=3
 STABLE_N=2
 WORSE=2
 WINDOW=3
 FAILS=2
 RUNS=2
 CLEAR=1
 Thr=2
 Spacings={1,2}
 Outcomes={"up","down","degraded"}
 MaxLen=7
INVARIANTS LoopsAgree WindowIsEnough
