\* Three usable slots, three ids, windows of two single-bucket sets.
CONSTANTS
    MaxOrders = 4
    OrderRec = {Rec}
    ZeroRec = Rec
    TabIds = {i1, i2, i3}
    TabSlots = {1, 2, 3}
    Sets = 3
    Ways = 1
    MaxSetProbe = 2
SPECIFICATION StorageSpec
INVARIANTS NoSlotTwice MemoriesAgree AtRestAllAgree
PROPERTIES SlotDiscipline ImplementsMap RefusedOnlyWhenFull OperationsEnd
