-------------------------- MODULE ConfigStore_proofs --------------------------
(***************************************************************************)
(* What holds of the configuration however often a save is cut short: for  *)
(* every set of records the menu and the network may change, and for any   *)
(* number of resets.                                                       *)
(***************************************************************************)
EXTENDS ConfigStore, SequenceTheorems, TLAPS

-----------------------------------------------------------------------------
\* The inductive invariant.

\* A save in progress has taken the mark away, and what it has not still to write
\* is written.
SaveOK ==
    pc = "save" =>
      /\ mark = NO_MARK
      /\ \A r \in Records : (\E i \in DOMAIN left : left[i] = r) \/ flash[r] = image[r]

\* The records that are read under the mark: no copy of the program's holds an
\* erased or torn one, and no save means to write one.
Marked == Records \ {"features", "mac"}
ImageClean == \A r \in Marked : image[r] \in Statuses
RamClean == \A r \in Marked : ram[r] \in Statuses
MenuClean == \A r \in MenuRecords \ {"features"} : menu[r] \in Statuses

\* A save that is not followed by another one writes what the program uses.
SaveIsOfRam ==
    pc = "save" /\ ~Update_Flash_Flag /\ ~restoring => menu = MenuOf(ram) /\ image = ram

IInv ==
    /\ TypeOK
    /\ SaveOK /\ MarkCommits
    /\ ImageClean /\ RamClean /\ MenuClean
    /\ SaveIsOfRam /\ CopiesAgree

-----------------------------------------------------------------------------
\* The records and their order.
LEMMA RecordFacts ==
    /\ {"features", "format", "input", "output", "ip", "mac", "utc"} \subseteq Records
    /\ Order \in Seq(Records)
    /\ \A r \in Records : \E i \in DOMAIN Order : Order[i] = r
    /\ MenuRecords \subseteq Records /\ "features" \in MenuRecords
    /\ {"ip", "mac", "utc"} \cap MenuRecords = {}
<1>1. \A r \in Records : \E i \in DOMAIN Order : Order[i] = r
  BY DEF Records
<1>2. /\ "features" = Order[1] /\ "format" = Order[2] /\ "input" = Order[3] /\ "output" = Order[4]
      /\ "ip" = Order[5] /\ "mac" = Order[6] /\ "utc" = Order[7]
      /\ {1, 2, 3, 4, 5, 6, 7} \subseteq DOMAIN Order
  BY DEF Order
<1>3. {"features", "format", "input", "output", "ip", "mac", "utc"} \subseteq Records
  BY <1>2 DEF Records
<1>4. Order \in Seq(Records)
  <2>1. Len(Order) = 13 /\ DOMAIN Order = 1 .. 13
    BY DEF Order
  <2>2. \A i \in 1 .. 13 : Order[i] \in Records
    BY <2>1 DEF Records
  <2>3. Order = [i \in 1 .. 13 |-> Order[i]]
    BY <2>1 DEF Order
  <2> QED
    BY <2>1, <2>2, <2>3
<1> QED
  BY <1>1, <1>3, <1>4 DEF MenuRecords, Pages

LEMMA DefaultTypes ==
    /\ Default \in [Records -> Statuses] /\ Default \in [Records -> Contents]
    /\ MenuOf(Default) \in [MenuRecords -> Statuses]
    /\ MenuOf(Default) \in [MenuRecords -> Contents]
    /\ Statuses \subseteq Contents /\ {ERASED, TORN} \subseteq Contents
BY RecordFacts DEF Default, MenuOf, Statuses, Contents, SET, RESET

LEMMA MenuOfTypes ==
    ASSUME NEW config \in [Records -> Contents]
    PROVE  MenuOf(config) \in [MenuRecords -> Contents]
BY RecordFacts DEF MenuOf

-----------------------------------------------------------------------------
LEMMA InitEstablishes == Init => IInv
<1> SUFFICES ASSUME Init PROVE IInv
  OBVIOUS
<1>1. TypeOK
  <2>1. /\ Default \in [Records -> Contents] /\ MenuOf(Default) \in [MenuRecords -> Contents]
        /\ 0 \in 0 .. MaxResets /\ <<>> \in Seq(Records)
    BY DefaultTypes, EditsAssumption
  <2> QED
    BY <2>1 DEF Init, TypeOK
<1>2. /\ SaveOK /\ MarkCommits /\ SaveIsOfRam /\ CopiesAgree
      /\ ImageClean /\ RamClean /\ MenuClean
  BY DefaultTypes, RecordFacts DEF Init, SaveOK, MarkCommits, SaveIsOfRam, CopiesAgree, ImageClean,
     RamClean, MenuClean, Marked
<1> QED
  BY <1>1, <1>2 DEF IInv

-----------------------------------------------------------------------------
\* The steps of a save.

LEMMA WriteRecordKeeps ==
    ASSUME IInv, WriteRecord
    PROVE  IInv'
<1>1. /\ pc = "save" /\ left # <<>>
      /\ flash' = [flash EXCEPT ![Head(left)] = image[Head(left)]]
      /\ left' = Tail(left)
      /\ UNCHANGED <<ram, menu, mark, Update_Flash_Flag, pc, image, restoring, restarting, resets>>
  BY DEF WriteRecord
<1>2. Head(left) \in Records /\ left' \in Seq(Records)
  BY <1>1 DEF IInv, TypeOK
<1>3. flash' \in [Records -> Contents]
  BY <1>1, <1>2 DEF IInv, TypeOK
<1>4. TypeOK'
  BY <1>1, <1>2, <1>3 DEF IInv, TypeOK
<1>5. SaveOK'
  <2> SUFFICES ASSUME NEW r \in Records, flash'[r] # image[r]
               PROVE  \E i \in DOMAIN left' : left'[i] = r
    BY <1>1 DEF IInv, SaveOK
  <2>1. r # Head(left) /\ flash[r] # image[r]
    BY <1>1, <1>2 DEF IInv, TypeOK
  <2>2. PICK i \in DOMAIN left : left[i] = r
    BY <1>1, <2>1 DEF IInv, SaveOK
  <2>3. left \in Seq(Records) /\ i \in 1 .. Len(left) /\ i # 1
    BY <1>1, <2>1, <2>2 DEF IInv, TypeOK
  <2>4. i - 1 \in DOMAIN left' /\ left'[i - 1] = r
    BY <1>1, <2>2, <2>3
  <2> QED
    BY <2>4
<1>6. MarkCommits'
  BY <1>1 DEF IInv, SaveOK, MarkCommits, NO_MARK, VALID
<1>7. (ImageClean /\ RamClean /\ MenuClean /\ SaveIsOfRam /\ CopiesAgree)'
  BY <1>1 DEF IInv, ImageClean, RamClean, MenuClean, SaveIsOfRam, CopiesAgree
<1> QED
  BY <1>4, <1>5, <1>6, <1>7 DEF IInv

\* With nothing left to write the sector is the image, which is what the mark says.
LEMMA WriteMarkKeeps ==
    ASSUME IInv, WriteMark
    PROVE  IInv'
<1>1. /\ pc = "save" /\ left = <<>>
      /\ mark' = VALID
      /\ pc' = "run"
      /\ restoring' = FALSE
      /\ ram' = IF restoring THEN flash ELSE ram
      /\ menu' = IF restoring THEN MenuOf(flash) ELSE menu
      /\ UNCHANGED <<flash, Update_Flash_Flag, image, left, restarting, resets>>
  BY DEF WriteMark
<1>2. flash = image
  <2>1. \A r \in Records : flash[r] = image[r]
    BY <1>1 DEF IInv, SaveOK
  <2> QED
    BY <2>1 DEF IInv, TypeOK
<1>3. TypeOK'
  <2>1. ram' \in [Records -> Contents] /\ menu' \in [MenuRecords -> Contents]
    BY <1>1, MenuOfTypes DEF IInv, TypeOK
  <2> QED
    BY <1>1, <2>1 DEF IInv, TypeOK
<1>4. SaveOK' /\ MarkCommits' /\ SaveIsOfRam'
  BY <1>1, <1>2 DEF SaveOK, MarkCommits, SaveIsOfRam
<1>5. ImageClean' /\ RamClean' /\ MenuClean'
  <2>1. ImageClean' /\ RamClean'
    BY <1>1, <1>2 DEF IInv, ImageClean, RamClean
  <2>2. \A r \in MenuRecords \ {"features"} : MenuOf(flash)[r] \in Statuses
    BY <1>2, RecordFacts DEF IInv, ImageClean, Marked, MenuOf
  <2> QED
    BY <1>1, <2>1, <2>2 DEF IInv, MenuClean
<1>6. CopiesAgree'
  <2>1. CASE restoring
    BY <1>1, <2>1 DEF CopiesAgree
  <2>2. CASE ~restoring
    BY <1>1, <1>2, <2>2 DEF CopiesAgree, IInv, SaveIsOfRam
  <2> QED
    BY <2>1, <2>2
<1> QED
  BY <1>3, <1>4, <1>5, <1>6 DEF IInv

\* A save begins: whatever it is of, it may be begun when its image is clean and
\* agrees with the program's copies.
LEMMA EraseKeeps ==
    ASSUME IInv, NEW config \in [Records -> Contents], NEW isRestore \in BOOLEAN,
           Erase(config, isRestore),
           ram' \in [Records -> Contents], menu' \in [MenuRecords -> Contents],
           Update_Flash_Flag' \in BOOLEAN, UNCHANGED <<restarting, resets>>,
           \A r \in Marked : config[r] \in Statuses,
           RamClean', MenuClean',
           ~Update_Flash_Flag' /\ ~isRestore => menu' = MenuOf(ram)' /\ config = ram'
    PROVE  IInv'
<1>1. /\ flash' = [r \in Records |-> ERASED]
      /\ mark' = NO_MARK
      /\ image' = config
      /\ left' = Order
      /\ restoring' = isRestore
      /\ pc' = "save"
  BY DEF Erase
<1>2. TypeOK'
  <2>1. flash' \in [Records -> Contents] /\ left' \in Seq(Records)
    BY <1>1, RecordFacts, DefaultTypes
  <2> QED
    BY <1>1, <2>1 DEF IInv, TypeOK
<1>3. SaveOK'
  BY <1>1, RecordFacts DEF SaveOK
<1>4. MarkCommits' /\ CopiesAgree'
  BY <1>1 DEF MarkCommits, CopiesAgree, NO_MARK, VALID
<1>5. ImageClean' /\ SaveIsOfRam'
  BY <1>1 DEF ImageClean, SaveIsOfRam, MenuOf
<1> QED
  BY <1>2, <1>3, <1>4, <1>5 DEF IInv

-----------------------------------------------------------------------------
\* The boot.

LEMMA ReadFlashIpMacKeeps ==
    ASSUME IInv, Read_Flash_IP_MAC
    PROVE  IInv'
<1> DEFINE ip == CASE mark = RESTORE_DEFAULT -> Default["ip"]
                   [] mark = VALID -> flash["ip"]
                   [] OTHER -> ram["ip"]
<1>1. /\ pc = "boot" /\ pc' = "load"
      /\ ram' = [ram EXCEPT !["ip"] = ip, !["mac"] = flash["mac"]]
      /\ UNCHANGED <<menu, flash, mark, Update_Flash_Flag, image, left, restoring, restarting, resets>>
  BY DEF Read_Flash_IP_MAC
<1>2. "ip" \in Marked /\ "mac" \in Records
  BY RecordFacts DEF Marked
<1>3. ip \in Statuses
  <2>1. mark = VALID => flash["ip"] \in Statuses
    BY <1>2 DEF IInv, MarkCommits, ImageClean
  <2>2. Default["ip"] \in Statuses /\ ram["ip"] \in Statuses
    BY <1>2, DefaultTypes DEF IInv, RamClean, Marked
  <2> QED
    BY <2>1, <2>2 DEF VALID, RESTORE_DEFAULT
<1>4. ram' \in [Records -> Contents] /\ RamClean'
  <2> HIDE DEF ip
  <2>1. flash["mac"] \in Contents /\ ip \in Contents
    BY <1>2, <1>3, DefaultTypes DEF IInv, TypeOK
  <2> QED
    BY <1>1, <1>2, <1>3, <2>1 DEF IInv, TypeOK, RamClean, Marked
<1>5. TypeOK'
  BY <1>1, <1>4 DEF IInv, TypeOK
<1>6. (SaveOK /\ MarkCommits /\ ImageClean /\ MenuClean /\ SaveIsOfRam /\ CopiesAgree)'
  BY <1>1 DEF IInv, SaveOK, MarkCommits, ImageClean, MenuClean, SaveIsOfRam, CopiesAgree
<1> QED
  BY <1>4, <1>5, <1>6 DEF IInv

LEMMA LoadDefaultsKeeps ==
    ASSUME IInv, LoadDefaults
    PROVE  IInv'
<1> DEFINE config == [Default EXCEPT !["features"] = flash["features"]]
<1>1. /\ ram' = [ram EXCEPT !["features"] = flash["features"], !["mac"] = flash["mac"]]
      /\ Erase(config, TRUE)
      /\ UNCHANGED <<menu, Update_Flash_Flag, restarting, resets>>
  BY DEF LoadDefaults
<1>2. flash["features"] \in Contents /\ flash["mac"] \in Contents
  BY RecordFacts DEF IInv, TypeOK
<1>3. config \in [Records -> Contents] /\ \A r \in Marked : config[r] \in Statuses
  BY <1>2, DefaultTypes, RecordFacts DEF Marked
<1>4. ram' \in [Records -> Contents] /\ RamClean'
  BY <1>1, <1>2, RecordFacts DEF IInv, TypeOK, RamClean, Marked
<1>5. menu' \in [MenuRecords -> Contents] /\ MenuClean' /\ Update_Flash_Flag' \in BOOLEAN
  BY <1>1 DEF IInv, TypeOK, MenuClean
<1> HIDE DEF config
<1> QED
  BY <1>1, <1>3, <1>4, <1>5, EraseKeeps

\* What the menu shows is clean if the arrays it is filled from are.
LEMMA CleanColumn ==
    ASSUME NEW config, \A r \in Marked : config[r] \in Statuses
    PROVE  \A r \in MenuRecords \ {"features"} : MenuOf(config)[r] \in Statuses
BY RecordFacts DEF Marked, MenuOf

LEMMA LoadConfigKeeps ==
    ASSUME IInv, LoadConfig
    PROVE  IInv'
<1>1. /\ mark # RESTORE_DEFAULT
      /\ ram' = IF mark = VALID THEN flash ELSE ram
      /\ menu' = MenuOf(ram')
      /\ pc' = "run"
      /\ UNCHANGED <<flash, mark, Update_Flash_Flag, image, left, restoring, restarting, resets>>
  BY DEF LoadConfig
<1>2. ram' \in [Records -> Contents] /\ menu' \in [MenuRecords -> Contents]
  BY <1>1, MenuOfTypes DEF IInv, TypeOK
<1>3. RamClean'
  BY <1>1 DEF IInv, RamClean, MarkCommits, ImageClean
<1>4. MenuClean'
  BY <1>1, <1>3, CleanColumn DEF RamClean, MenuClean
<1>5. TypeOK'
  BY <1>1, <1>2 DEF IInv, TypeOK
<1>6. (SaveOK /\ MarkCommits /\ ImageClean /\ SaveIsOfRam)'
  BY <1>1 DEF IInv, SaveOK, MarkCommits, ImageClean, SaveIsOfRam
<1>7. CopiesAgree'
  BY <1>1 DEF CopiesAgree, MenuOf
<1> QED
  BY <1>3, <1>4, <1>5, <1>6, <1>7 DEF IInv

-----------------------------------------------------------------------------
\* The menu and the network.

LEMMA ArrUpdateTypes ==
    ASSUME NEW column \in [MenuRecords -> Contents], NEW arrays \in [Records -> Contents],
           \A r \in MenuRecords \ {"features"} : column[r] \in Statuses,
           \A r \in Marked : arrays[r] \in Statuses
    PROVE  /\ Arr_Update(column, arrays) \in [Records -> Contents]
           /\ \A r \in Marked : Arr_Update(column, arrays)[r] \in Statuses
           /\ column = MenuOf(Arr_Update(column, arrays))
<1>1. Arr_Update(column, arrays) \in [Records -> Contents]
  BY DEF Arr_Update
<1>2. \A r \in Marked : Arr_Update(column, arrays)[r] \in Statuses
  BY DEF Arr_Update, Marked
<1>3. column = MenuOf(Arr_Update(column, arrays))
  BY RecordFacts DEF Arr_Update, MenuOf
<1> QED
  BY <1>1, <1>2, <1>3

LEMMA SelectInMenuKeeps ==
    ASSUME IInv, NEW r \in MenuEdits, NEW v \in {SET, RESET}, SelectInMenu(r, v)
    PROVE  IInv'
<1>1. /\ r \in MenuRecords
      /\ menu' = [menu EXCEPT ![r] = IF @ = NON_OPERATE THEN @ ELSE v]
      /\ ram' = Arr_Update(menu', ram)
      /\ Erase(ram', FALSE)
      /\ UNCHANGED <<Update_Flash_Flag, restarting, resets>>
  BY DEF SelectInMenu
<1>2. v \in Statuses /\ v \in Contents
  BY DefaultTypes DEF Statuses
<1>3. menu' \in [MenuRecords -> Contents]
  BY <1>1, <1>2 DEF IInv, TypeOK
<1>4. MenuClean'
  BY <1>1, <1>2 DEF IInv, TypeOK, MenuClean
<1>5. /\ ram' \in [Records -> Contents]
      /\ \A s \in Marked : ram'[s] \in Statuses
      /\ menu' = MenuOf(ram')
  BY <1>1, <1>3, <1>4, ArrUpdateTypes DEF IInv, TypeOK, MenuClean, RamClean
<1>6. RamClean' /\ MenuOf(ram)' = MenuOf(ram') /\ Update_Flash_Flag' \in BOOLEAN
  BY <1>1, <1>5 DEF RamClean, MenuOf, IInv, TypeOK
<1> QED
  BY <1>1, <1>3, <1>4, <1>5, <1>6, EraseKeeps

\* A page is no menu record: the column stays what it was, but the RAM arrays are
\* filled from it.
LEMMA EditPageKeeps ==
    ASSUME IInv, NEW r \in MenuEdits, NEW v \in {SET, RESET}, EditPage(r, v)
    PROVE  IInv'
<1>1. /\ ram' = Arr_Update(menu, [ram EXCEPT ![r] = v])
      /\ Erase(ram', FALSE)
      /\ UNCHANGED <<menu, Update_Flash_Flag, restarting, resets>>
  BY DEF EditPage
<1>2. v \in Statuses /\ v \in Contents
  BY DefaultTypes DEF Statuses
<1>3. /\ [ram EXCEPT ![r] = v] \in [Records -> Contents]
      /\ \A s \in Marked : [ram EXCEPT ![r] = v][s] \in Statuses
  BY <1>2 DEF IInv, TypeOK, RamClean, Marked
<1>4. menu \in [MenuRecords -> Contents] /\ MenuClean
  BY DEF IInv, TypeOK
<1>5. /\ ram' \in [Records -> Contents]
      /\ \A s \in Marked : ram'[s] \in Statuses
      /\ menu = MenuOf(ram')
  BY <1>1, <1>3, <1>4, ArrUpdateTypes DEF MenuClean
<1>6. /\ menu' \in [MenuRecords -> Contents] /\ MenuClean' /\ RamClean'
      /\ menu' = MenuOf(ram)' /\ Update_Flash_Flag' \in BOOLEAN
  BY <1>1, <1>4, <1>5 DEF RamClean, MenuClean, MenuOf, IInv, TypeOK
<1> QED
  BY <1>1, <1>5, <1>6, EraseKeeps

\* A command leaves in the arrays of the options a status, whatever the features are.
LEMMA MaskedTypes ==
    ASSUME NEW config \in [Records -> Contents], \A r \in Marked : config[r] \in Statuses
    PROVE  /\ En_Or_Dis_UpData(config) \in [Records -> Contents]
           /\ \A r \in Marked : En_Or_Dis_UpData(config)[r] \in Statuses
<1>1. "input" \in Marked /\ "output" \in Marked
  BY RecordFacts DEF Marked
<1>2. \A s \in Statuses : Masked(config["features"], s) \in Statuses
  BY DEF Masked, Statuses
<1>3. /\ Masked(config["features"], config["input"]) \in Statuses
      /\ Masked(config["features"], config["output"]) \in Statuses
  BY <1>1, <1>2
<1> QED
  BY <1>1, <1>3, DefaultTypes DEF En_Or_Dis_UpData, Marked

\* While the save of a command is pending the copies may differ.
LEMMA NetworkKeeps ==
    ASSUME IInv, pc = "run", ram' \in [Records -> Contents], RamClean',
           Update_Flash_Flag' = TRUE, restarting' \in BOOLEAN,
           UNCHANGED <<menu, flash, mark, pc, image, left, restoring, resets>>
    PROVE  IInv'
<1>1. TypeOK'
  BY DEF IInv, TypeOK
<1>2. (SaveOK /\ MarkCommits /\ ImageClean /\ MenuClean /\ SaveIsOfRam /\ CopiesAgree)'
  BY DEF IInv, SaveOK, MarkCommits, ImageClean, MenuClean, SaveIsOfRam, CopiesAgree
<1> QED
  BY <1>1, <1>2 DEF IInv

LEMMA NetWriteKeeps ==
    ASSUME IInv, NEW r \in NetEdits, NEW v \in {SET, RESET}, NetWrite(r, v)
    PROVE  IInv'
<1> DEFINE withFeature == IF r = "features" THEN [ram EXCEPT ![r] = v] ELSE ram
           masked == En_Or_Dis_UpData(withFeature)
<1>1. /\ pc = "run" /\ ram' = [masked EXCEPT ![r] = v]
      /\ Update_Flash_Flag' = TRUE
      /\ UNCHANGED <<menu, flash, mark, pc, image, left, restoring, restarting, resets>>
  BY DEF NetWrite
<1>2. v \in Statuses /\ v \in Contents
  BY DefaultTypes DEF Statuses
<1>3. withFeature \in [Records -> Contents] /\ \A s \in Marked : withFeature[s] \in Statuses
  BY <1>2 DEF IInv, TypeOK, RamClean, Marked
<1>4. masked \in [Records -> Contents] /\ \A s \in Marked : masked[s] \in Statuses
  <2> HIDE DEF withFeature
  <2> QED
    BY <1>3, MaskedTypes
<1>5. ram' \in [Records -> Contents] /\ RamClean'
  <2> HIDE DEF masked
  <2> QED
    BY <1>1, <1>2, <1>4 DEF RamClean, Marked
<1>6. restarting' \in BOOLEAN
  BY <1>1 DEF IInv, TypeOK
<1> HIDE DEF masked
<1> QED
  BY <1>1, <1>5, <1>6, NetworkKeeps

LEMMA UpdateFlashKeeps ==
    ASSUME IInv, UpdateFlash
    PROVE  IInv'
<1>1. /\ Update_Flash_Flag' = FALSE
      /\ menu' = MenuOf(ram)
      /\ Erase(ram, FALSE)
      /\ UNCHANGED <<ram, restarting, resets>>
  BY DEF UpdateFlash
<1>2. ram \in [Records -> Contents] /\ \A r \in Marked : ram[r] \in Statuses
  BY DEF IInv, TypeOK, RamClean
<1>3. /\ ram' \in [Records -> Contents] /\ menu' \in [MenuRecords -> Contents]
      /\ RamClean' /\ MenuClean' /\ Update_Flash_Flag' \in BOOLEAN
      /\ menu' = MenuOf(ram)' /\ ram = ram'
  BY <1>1, <1>2, MenuOfTypes, CleanColumn DEF RamClean, MenuClean, MenuOf
<1> QED
  BY <1>1, <1>2, <1>3, EraseKeeps

LEMMA RestartKeeps ==
    ASSUME IInv, Restart_Action \/ Restore_Action
    PROVE  IInv'
<1>1. /\ pc = "run" /\ mark' \in {mark, RESTORE_DEFAULT} /\ restarting' = TRUE
      /\ UNCHANGED <<ram, menu, flash, Update_Flash_Flag, pc, image, left, restoring, resets>>
  BY DEF Restart_Action, Restore_Action
<1>2. TypeOK'
  BY <1>1 DEF IInv, TypeOK
<1>3. (SaveOK /\ MarkCommits /\ CopiesAgree)'
  BY <1>1 DEF IInv, SaveOK, MarkCommits, CopiesAgree, MenuOf, VALID, RESTORE_DEFAULT
<1>4. (ImageClean /\ RamClean /\ MenuClean /\ SaveIsOfRam)'
  BY <1>1 DEF IInv, ImageClean, RamClean, MenuClean, SaveIsOfRam
<1> QED
  BY <1>2, <1>3, <1>4 DEF IInv

LEMMA NetRestartKeeps ==
    ASSUME IInv, NetRestart
    PROVE  IInv'
<1>1. /\ pc = "run" /\ restarting' = TRUE /\ Update_Flash_Flag' = TRUE
      /\ ram' = En_Or_Dis_UpData(ram)
      /\ UNCHANGED <<menu, flash, mark, pc, image, left, restoring, resets>>
  BY DEF NetRestart
<1>2. ram' \in [Records -> Contents] /\ RamClean'
  BY <1>1, MaskedTypes DEF IInv, TypeOK, RamClean
<1> QED
  BY <1>1, <1>2, NetworkKeeps

\* A reset in the middle of a save may tear a record, but then the mark is gone.
LEMMA ResetKeeps ==
    ASSUME IInv, Reset
    PROVE  IInv'
<1>1. /\ resets < MaxResets /\ resets' = resets + 1
      /\ pc' = "boot"
      /\ ram' = Default /\ menu' = MenuOf(Default)
      /\ Update_Flash_Flag' = FALSE /\ restarting' = FALSE /\ restoring' = FALSE
      /\ left' = <<>>
      /\ UNCHANGED <<mark, image>>
  BY DEF Reset
<1>2. \/ flash' = flash
      \/ pc = "save" /\ left # <<>> /\ flash' = [flash EXCEPT ![Head(left)] = TORN]
  BY DEF Reset
<1>3. flash' \in [Records -> Contents]
  BY <1>2, DefaultTypes DEF IInv, TypeOK
<1>4. /\ resets' \in 0 .. MaxResets /\ left' \in Seq(Records)
      /\ ram' \in [Records -> Contents] /\ menu' \in [MenuRecords -> Contents]
  BY <1>1, DefaultTypes, EditsAssumption DEF IInv, TypeOK
<1>5. TypeOK'
  BY <1>1, <1>3, <1>4 DEF IInv, TypeOK
<1>6. (SaveOK /\ SaveIsOfRam /\ CopiesAgree)'
  BY <1>1 DEF SaveOK, SaveIsOfRam, CopiesAgree
<1>7. MarkCommits'
  BY <1>1, <1>2 DEF IInv, SaveOK, MarkCommits, NO_MARK, VALID
<1>8. (ImageClean /\ RamClean /\ MenuClean)'
  BY <1>1, DefaultTypes, RecordFacts DEF IInv, ImageClean, RamClean, MenuClean, Marked
<1> QED
  BY <1>5, <1>6, <1>7, <1>8 DEF IInv

LEMMA StutterKeeps ==
    ASSUME IInv, UNCHANGED vars
    PROVE  IInv'
BY DEF vars, IInv, TypeOK, SaveOK, MarkCommits, ImageClean, RamClean, MenuClean, SaveIsOfRam,
   CopiesAgree, MenuOf

-----------------------------------------------------------------------------
\* Every step keeps the inductive invariant.
LEMMA StepKeeps == IInv /\ [Next]_vars => IInv'
<1> SUFFICES ASSUME IInv, [Next]_vars PROVE IInv'
  OBVIOUS
<1>1. CASE Save \/ Boot \/ UpdateFlash
  BY <1>1, WriteRecordKeeps, WriteMarkKeeps, ReadFlashIpMacKeeps, LoadDefaultsKeeps, LoadConfigKeeps,
     UpdateFlashKeeps DEF Save, Boot
<1>2. CASE \E r \in MenuEdits, v \in {SET, RESET} : SelectInMenu(r, v) \/ EditPage(r, v)
  BY <1>2, SelectInMenuKeeps, EditPageKeeps
<1>3. CASE \E r \in NetEdits, v \in {SET, RESET} : NetWrite(r, v)
  BY <1>3, NetWriteKeeps
<1>4. CASE Restart_Action \/ NetRestart \/ Restore_Action \/ Reset
  BY <1>4, RestartKeeps, NetRestartKeeps, ResetKeeps
<1>5. CASE UNCHANGED vars
  BY <1>5, StutterKeeps
<1> QED
  BY <1>1, <1>2, <1>3, <1>4, <1>5 DEF Next

\* The copies of the configuration, the sector and a save in progress fit together
\* in every state, with any number of resets at any moment.
THEOREM Invariance == Spec => []IInv
BY InitEstablishes, StepKeeps, PTL DEF Spec

\* The copies hold statuses, erased or torn records and nothing else, and what a
\* save has left to write are records.
THEOREM TypeCorrect == Spec => []TypeOK
<1>1. IInv => TypeOK
  BY DEF IInv
<1> QED
  BY <1>1, Invariance, PTL

\* The RESTORE byte, erased first and written last, commits a save: with it the
\* sector is what the last save meant to write.
THEOREM MarkCorrect == Spec => []MarkCommits
<1>1. IInv => MarkCommits
  BY DEF IInv
<1> QED
  BY <1>1, Invariance, PTL

\* The program works with statuses only, for every record read under the mark.
THEOREM NoGarbage == Spec => []NoGarbageConfig
<1>1. IInv => NoGarbageConfig
  BY DEF IInv, RamClean, Marked, NoGarbageConfig
<1> QED
  BY <1>1, Invariance, PTL

\* Between saves, and with no command waiting for its save, the menu, the program
\* and the sector agree.
THEOREM CopiesCorrect == Spec => []CopiesAgree
<1>1. IInv => CopiesAgree
  BY DEF IInv
<1> QED
  BY <1>1, Invariance, PTL
=============================================================================
