SPECIFICATION FairSpec
CONSTANT N = 5
INVARIANTS NoDeadlock
PROPERTIES RefinesTable SomebodyEats
