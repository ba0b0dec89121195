------------------------------ MODULE MCDiskMain ------------------------------
(* The scheduler and the hotplug slot on small instances.                    *)
EXTENDS DiskMain, TLC

\* One unit of time is half a timer period.  "daily" names a slot a day.
MCSchedules == {"none", "daily"}
MCSlotsOf == [none |-> {}, daily |-> {2, 5}]

DailyOnly == [sched : {"daily"}, hotplug : {FALSE}, uuid : {"-"}]

HotplugSettings ==
  [sched : {"none"}, hotplug : BOOLEAN, uuid : Uuids]

NameSymmetry == Permutations(Names) \cup Permutations(Ids)
=============================================================================
