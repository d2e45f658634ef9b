---------------------------- MODULE ConfigStore -----------------------------
(***************************************************************************)
(* The configuration: RAM arrays, the status column of the menu, and flash *)
(* sector 11 (driver/oled_meau/meau_flash.c, menu_items.c), with the three *)
(* ways it changes: the menu, the network commands 0x03 and the boot; and  *)
(* resets at any moment, also in the middle of a save.                     *)
(*                                                                         *)
(* The main loop does all of this, so only a reset interrupts a save.  A   *)
(* record's bytes are abstracted to the status of its first option, which  *)
(* tells a default from a changed record; for features it is the HDMI bit, *)
(* which enables the first option of input and output.                     *)
(***************************************************************************)
EXTENDS Integers, Sequences

CONSTANTS
    MenuEdits,  \* records the menu may change
    NetEdits,   \* records a network command may change
    MaxResets   \* bound: resets in a behaviour

\* The records in the order Write2Flash and ReadFlash2Arr write them.
Order == <<"features", "format", "input", "output", "ip", "mac", "utc", "srcmode",
           "synctype", "clocktype", "syncframe", "dispmode", "brightness">>
Records == {Order[i] : i \in DOMAIN Order}

\* Records edited in place by their menu page, without a status column.
Pages == {"ip", "mac", "utc"}
MenuRecords == Records \ Pages

SET == "set"
RESET == "reset"
NON_OPERATE == "non"
Statuses == {SET, RESET, NON_OPERATE}
ERASED == "erased"
TORN == "torn"          \* a reset came while the record was programmed
Contents == Statuses \cup {ERASED, TORN}

\* RESTORE_NUM_ADDR: what the next boot does with the sector.
RESTORE_DEFAULT == 0
VALID == 1
NO_MARK == 255

ASSUME EditsAssumption ==
    /\ MenuEdits \subseteq Records \ {"features"}   \* the Feature items are dead
    /\ NetEdits \subseteq Records \ {"mac"}         \* no command writes the MAC
    /\ MaxResets \in Nat

VARIABLES
    ram,        \* System_Feature_Arr, Config_Format_Arr, ..., Ip_Arr, Mac_Arr
    menu,       \* the status column of the menu items
    flash,      \* the records of sector 11
    mark,       \* its RESTORE byte
    Update_Flash_Flag,  \* a network command awaits its save
    pc,         \* "boot", "load", "save" or "run"
    image,      \* what the running save writes, or the last one wrote ...
    left,       \* ... and the records it has not written yet
    restoring,  \* the running save is the one of ReadFlash2Arr
    restarting, \* ReStart() armed the watchdog: it resets 250 us later
    resets      \* resets so far

vars == <<ram, menu, flash, mark, Update_Flash_Flag, pc, image, left, restoring,
          restarting, resets>>

\* The initialisers of the RAM arrays, which the Default_ arrays repeat.
Default == [r \in Records |-> IF r = "features" THEN RESET ELSE SET]

\* Types of the copies of the configuration and of the save in progress.
TypeOK ==
    /\ ram \in [Records -> Contents]
    /\ menu \in [MenuRecords -> Contents]
    /\ flash \in [Records -> Contents]
    /\ mark \in {RESTORE_DEFAULT, VALID, NO_MARK}
    /\ Update_Flash_Flag \in BOOLEAN
    /\ pc \in {"boot", "load", "save", "run"}
    /\ image \in [Records -> Contents]
    /\ left \in Seq(Records)
    /\ restoring \in BOOLEAN
    /\ restarting \in BOOLEAN
    /\ resets \in 0 .. MaxResets

\* Mutant: the pages are copied into the status column too.
MenuOfAll(config) == config

MenuOf(config) == [r \in MenuRecords |-> config[r]]

\* A device that left the factory with a saved configuration is switched on.
Init ==
    /\ ram = Default
    /\ menu = MenuOf(Default)
    /\ flash = Default
    /\ mark = VALID
    /\ Update_Flash_Flag = FALSE
    /\ pc = "boot"
    /\ image = Default
    /\ left = <<>>
    /\ restoring = FALSE
    /\ restarting = FALSE
    /\ resets = 0

-----------------------------------------------------------------------------
\* romflash_clean_pages and the pages_write calls of a save, one step each.

\* Mutant: the mark is not in the sector that is erased.
EraseRecordsOnly(config, isRestore) ==
    /\ flash' = [r \in Records |-> ERASED]
    /\ image' = config
    /\ left' = Order
    /\ restoring' = isRestore
    /\ pc' = "save"
    /\ UNCHANGED mark

Erase(config, isRestore) ==
    /\ flash' = [r \in Records |-> ERASED]
    /\ mark' = NO_MARK
    /\ image' = config
    /\ left' = Order
    /\ restoring' = isRestore
    /\ pc' = "save"

WriteRecord ==
    /\ pc = "save" /\ left # <<>>
    /\ flash' = [flash EXCEPT ![Head(left)] = image[Head(left)]]
    /\ left' = Tail(left)
    /\ UNCHANGED <<ram, menu, mark, Update_Flash_Flag, pc, image, restoring, restarting, resets>>

\* The RESTORE byte is written last; a restoring boot then reads everything
\* back, and menuInit copies it into the menu.
WriteMark ==
    /\ pc = "save" /\ left = <<>>
    /\ mark' = VALID
    /\ pc' = "run"
    /\ restoring' = FALSE
    /\ ram' = IF restoring THEN flash ELSE ram
    /\ menu' = IF restoring THEN MenuOf(flash) ELSE menu
    /\ UNCHANGED <<flash, Update_Flash_Flag, image, left, restarting, resets>>

-----------------------------------------------------------------------------
\* Read_Flash_IP_MAC, before the network is initialised.
Read_Flash_IP_MAC ==
    /\ pc = "boot"
    /\ ram' = [ram EXCEPT
                 !["ip"] = CASE mark = RESTORE_DEFAULT -> Default["ip"]
                             [] mark = VALID -> flash["ip"]
                             [] OTHER -> @,
                 !["mac"] = flash["mac"]]
    /\ pc' = "load"
    /\ UNCHANGED <<menu, flash, mark, Update_Flash_Flag, image, left, restoring,
                   restarting, resets>>

\* ReadFlash2Arr with RESTORE = 0: erase, and save the defaults with the
\* features that were read first.
LoadDefaults ==
    /\ pc = "load" /\ mark = RESTORE_DEFAULT
    /\ ram' = [ram EXCEPT !["features"] = flash["features"], !["mac"] = flash["mac"]]
    /\ Erase([Default EXCEPT !["features"] = flash["features"]], TRUE)
    /\ UNCHANGED <<menu, Update_Flash_Flag, restarting, resets>>

\* Mutant: every mark but RESTORE_DEFAULT counts as valid.
LoadUnmarkedConfig ==
    /\ pc = "load" /\ mark # RESTORE_DEFAULT
    /\ ram' = flash
    /\ menu' = MenuOf(ram')
    /\ pc' = "run"
    /\ UNCHANGED <<flash, mark, Update_Flash_Flag, image, left, restoring, restarting, resets>>

\* ReadFlash2Arr with RESTORE = 1, or with neither value; then menuInit.
LoadConfig ==
    /\ pc = "load" /\ mark # RESTORE_DEFAULT
    /\ ram' = IF mark = VALID THEN flash ELSE ram
    /\ menu' = MenuOf(ram')
    /\ pc' = "run"
    /\ UNCHANGED <<flash, mark, Update_Flash_Flag, image, left, restoring, restarting, resets>>

-----------------------------------------------------------------------------
\* Arr_Update, before its Write2Flash: the whole status column is copied over the
\* RAM arrays, whatever changed them since Arr_Init last filled the column.
Arr_Update(column, arrays) ==
    [r \in Records |-> IF r \in MenuRecords THEN column[r] ELSE arrays[r]]

\* A selection in the menu: the status column changes, then Arr_Update.  A
\* disabled option cannot be selected, and stays disabled when another one is.
SelectInMenu(r, v) ==
    /\ pc = "run"
    /\ r \in MenuEdits \cap MenuRecords
    /\ ~(menu[r] = NON_OPERATE /\ v = SET)
    /\ menu' = [menu EXCEPT ![r] = IF @ = NON_OPERATE THEN @ ELSE v]
    /\ ram' = Arr_Update(menu', ram)
    /\ Erase(ram', FALSE)
    /\ UNCHANGED <<Update_Flash_Flag, restarting, resets>>

\* CONFIRM in the IP, MAC or GPS page: the RAM array changes, then Arr_Update.
EditPage(r, v) ==
    /\ pc = "run"
    /\ r \in MenuEdits \cap Pages
    /\ ram' = Arr_Update(menu, [ram EXCEPT ![r] = v])
    /\ Erase(ram', FALSE)
    /\ UNCHANGED <<menu, Update_Flash_Flag, restarting, resets>>

\* En_Or_Dis_UpData on the first option: off while HDMI is not licensed, back
\* to unselected when it is.
Masked(features, status) ==
    IF features = RESET THEN NON_OPERATE
    ELSE IF status = NON_OPERATE THEN RESET ELSE status

En_Or_Dis_UpData(config) ==
    [config EXCEPT !["input"] = Masked(config["features"], @),
                   !["output"] = Masked(config["features"], @)]

\* Send_User_Data, command 0x03: Update_Flash_Arr, the acknowledgement, and the
\* save left to the 90 ms slot.  Every command runs En_Or_Dis_UpData, between
\* the change of a feature and that of any other record.
NetWrite(r, v) ==
    LET withFeature == IF r = "features" THEN [ram EXCEPT ![r] = v] ELSE ram
    IN  /\ pc = "run"
        /\ r \in NetEdits
        /\ ram' = [En_Or_Dis_UpData(withFeature) EXCEPT ![r] = v]
        /\ Update_Flash_Flag' = TRUE
        /\ UNCHANGED <<menu, flash, mark, pc, image, left, restoring, restarting, resets>>

\* Mutant: the slot saves without Arr_Init.
UpdateFlashOnly ==
    /\ pc = "run"
    /\ Update_Flash_Flag
    /\ Update_Flash_Flag' = FALSE
    /\ Erase(ram, FALSE)
    /\ UNCHANGED <<ram, menu, restarting, resets>>

\* Mutant: the slot does not take the request back.
UpdateFlashForEver ==
    /\ pc = "run"
    /\ Update_Flash_Flag
    /\ menu' = MenuOf(ram)
    /\ Erase(ram, FALSE)
    /\ UNCHANGED <<ram, Update_Flash_Flag, restarting, resets>>

\* Pollint100mSec, slot 9: Arr_Init and Write2Flash.
UpdateFlash ==
    /\ pc = "run"
    /\ Update_Flash_Flag
    /\ Update_Flash_Flag' = FALSE
    /\ menu' = MenuOf(ram)
    /\ Erase(ram, FALSE)
    /\ UNCHANGED <<ram, restarting, resets>>

\* ReStart: Restart_Action, or the network command 0x03 0xff 0xff, which then
\* goes on to set Update_Flash_Flag like any other.  The watchdog takes 250 us
\* to fire, and the main loop runs on until then.
Restart_Action ==
    /\ pc = "run"
    /\ restarting' = TRUE
    /\ UNCHANGED <<ram, menu, flash, mark, Update_Flash_Flag, pc, image, left, restoring, resets>>

NetRestart ==
    /\ pc = "run"
    /\ restarting' = TRUE
    /\ Update_Flash_Flag' = TRUE
    /\ ram' = En_Or_Dis_UpData(ram)
    /\ UNCHANGED <<menu, flash, mark, pc, image, left, restoring, resets>>

\* Restore_Flash programs 0x00 over the mark, without an erase; then ReStart.
Restore_Action ==
    /\ pc = "run"
    /\ mark' = RESTORE_DEFAULT
    /\ restarting' = TRUE
    /\ UNCHANGED <<ram, menu, flash, Update_Flash_Flag, pc, image, left, restoring, resets>>

\* The watchdog that ReStart armed, or a loss of power at any time.  The record
\* being programmed may be left torn.  (image is kept as the history of what the
\* interrupted, or the last, save was about.)
Reset ==
    /\ resets < MaxResets
    /\ resets' = resets + 1
    /\ pc' = "boot"
    /\ flash' \in {flash} \cup
                    (IF pc = "save" /\ left # <<>> THEN {[flash EXCEPT ![Head(left)] = TORN]} ELSE {})
    /\ ram' = Default
    /\ menu' = MenuOf(Default)
    /\ Update_Flash_Flag' = FALSE
    /\ restarting' = FALSE
    /\ restoring' = FALSE
    /\ left' = <<>>
    /\ UNCHANGED <<mark, image>>

Save == WriteRecord \/ WriteMark
Boot == Read_Flash_IP_MAC \/ LoadDefaults \/ LoadConfig

Next ==
    \/ Save \/ Boot \/ UpdateFlash
    \/ \E r \in MenuEdits, v \in {SET, RESET} : SelectInMenu(r, v) \/ EditPage(r, v)
    \/ \E r \in NetEdits, v \in {SET, RESET} : NetWrite(r, v)
    \/ Restart_Action \/ NetRestart \/ Restore_Action
    \/ Reset

Spec == Init /\ [][Next]_vars

\* The main loop makes progress: a boot and a save go through, and slot 9 runs.
FairSpec == Spec /\ WF_vars(Save) /\ WF_vars(Boot) /\ SF_vars(UpdateFlash)

-----------------------------------------------------------------------------
\* The RESTORE byte is a commit mark: with it the sector holds, record for
\* record, what the last completed save meant to write, whenever and however
\* often a save was cut short before.
MarkCommits == mark = VALID => flash = image

\* Whatever a reset left in the sector, the running program never works with
\* an erased or half-written record.  The features and the MAC are read
\* before the mark is looked at, and are not covered.
NoGarbageConfig ==
    pc = "run" => \A r \in Records \ {"features", "mac"} : ram[r] \in Statuses

\* Between saves the three copies of the configuration agree: with no network
\* command waiting, the menu shows what the program uses, and a sector that
\* carries the mark holds it.
CopiesAgree ==
    pc = "run" /\ ~Update_Flash_Flag =>
        /\ menu = MenuOf(ram)
        /\ mark = VALID => flash = ram

\* A network command that was acknowledged is saved in the end, unless a reset
\* comes first, however many menu selections and commands come between.
PendingIsSaved ==
    Update_Flash_Flag ~> (~Update_Flash_Flag /\ mark = VALID) \/ pc = "boot"

-----------------------------------------------------------------------------
\* What a comment of the source says and the code does not do.

\* meau_flash.c:693-701: command 0x03 updates the flash array it names, and the
\* flash follows in the polling slot: until then a menu selection leaves the
\* records it is not about alone.
AckedWriteIsKept ==
    [][ \A r \in MenuEdits, v \in {SET, RESET} :
          SelectInMenu(r, v) => \A s \in Records \ {r} : ram'[s] = ram[s] ]_vars
=============================================================================
