SPECIFICATION FairSpec
CONSTANTS
    Tests <- MCTests
    Addresses <- MCAddresses
    RuleLists <- MCRuleLists
INVARIANTS LazyIsEager LooksUpRelevant
PROPERTIES Settles
CHECK_DEADLOCK FALSE
