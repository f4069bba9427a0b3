SPECIFICATION FairSpec
CONSTANTS
 MaxLevel = 2
 Flaps = {TRUE, FALSE}
 Settle = 1
 Again = 2
 AgainMax = 3
 Tell = 1
 FlapWindow = 2
 FlapLimit = 2
 Gone = 1
 Ops = {"snooze", "mute", "known", "fixed"}
 FlapOps = {"snooze"}
INVARIANTS TypeOK ToldIsHeard
PROPERTIES AlarmIsNews AwakeClearAnswersAlarm StandingIsTold GoneIsTold
