SPECIFICATION FairSpec
CONSTANT N = 5
INVARIANTS NoLostWakeup
PROPERTIES RefinesTable SomebodyEats
