---------------------------- MODULE DriverLadders ----------------------------
(***************************************************************************)
(* What every kernel module of the repository, and every program that      *)
(* takes a GPIO through sysfs, obtains and gives back, step by step.       *)
(*                                                                         *)
(* A name stands for what the kernel calls so: "pin 0" is the GPIO 0, "irq *)
(* 2" the interrupt of GPIO 2 with the device id it is requested with,     *)
(* "chrdev" the numbers of a device and its initialised cdev, "mapping"    *)
(* what cdev_add adds to it, "bound" a platform device that has its driver.*)
(***************************************************************************)
EXTENDS ModuleLifecycle

-----------------------------------------------------------------------------
(* src/02_modules.                                                         *)

(* A list of two elements.  What cannot be allocated is left out.          *)
ListModule ==
  [init |-> <<Get("element 1", {}, 2), Get("text 1", {}, 1),
              Get("element 2", {}, 2), Get("text 2", {}, 1)>>,
   exit |-> <<Put({"text 1"}), PutIf({"element 1"}, {"element 1"}),
              Put({"text 2"}), PutIf({"element 2"}, {"element 2"})>>]

RegisterModule ==
  [init |-> <<Get("map 1", {}, 1), Get("map 2", {}, 1), Get("map 3", {}, 1),
              Need({"map 1", "map 2", "map 3"}, {"map 1", "map 2", "map 3"}, Error),
              Put({"map 1", "map 2", "map 3"})>>,
   exit |-> <<>>]

(* Mutant: the result of kthread_run is not tested.                        *)
TickModuleUntested ==
  [init |-> <<Get("thread", {}, 1)>>,
   exit |-> <<Put({"thread"})>>]

TickModule ==
  [init |-> <<Get("thread", {}, Error)>>,
   exit |-> <<Put({"thread"})>>]

(* Mutant: without the second thread both are stopped.                     *)
KickModuleStopsBoth ==
  [init |-> <<Get("thread 1", {}, Error),
              Get("thread 2", {"thread 1", "thread 2"}, Error)>>,
   exit |-> <<Put({"thread 1"}), Put({"thread 2"})>>]

(* Without the second thread the first one runs on in a freed module.      *)
KickModule ==
  [init |-> <<Get("thread 1", {}, Error), Get("thread 2", {}, Error)>>,
   exit |-> <<Put({"thread 1"}), Put({"thread 2"})>>]

(* free_irq takes the interrupt of this device id, whether or not it was   *)
(* requested as one that cannot be shared ("alone").                       *)
Irq2 == {"irq 2", "irq 2 alone"}
Irq3 == {"irq 3", "irq 3 alone"}

(* A shared interrupt needs a device id, and K1_Switch is 0.               *)
ButtonModule ==
  [init |-> <<Get("pin 0", {}, 2), Get("irq 0 shared", {"pin 0"}, 1),
              Get("pin 2", {}, 2), Get("irq 2", {"pin 2"}, 1),
              Get("pin 3", {}, 2), Get("irq 3", {"pin 3"}, 1)>>,
   exit |-> <<Put({"pin 0"}), Put({"irq 0"}), Put({"pin 2"}), Put(Irq2),
              Put({"pin 3"}), Put(Irq3)>>]

-----------------------------------------------------------------------------
(* src/03_drivers.                                                         *)

ConfigNumbers == {"mapping", "chrdev"}
ConfigFiles   == {"file data", "file cfg"}
ConfigNodes   == ConfigFiles \cup {"node"}

(* Mutants: the error path forgets the device; an error is forgotten.      *)
ConfigModuleKeepsNode ==
  [init |-> <<Get("chrdev", ConfigNumbers, Error), Get("mapping", ConfigNumbers, Error),
              Get("class ex5", ConfigNumbers, Error),
              Get("node", ConfigNumbers \cup {"class ex5"}, Error),
              Get("file data", ConfigNumbers \cup {"class ex5"} \cup ConfigFiles, Error),
              Get("file cfg", ConfigNumbers \cup {"class ex5"} \cup ConfigFiles, Error)>>,
   exit |-> <<Put({"mapping"}), Put({"chrdev"}), PutIf(ConfigFiles, {"node"}),
              PutIf({"node"}, {"node"}), PutIf({"class ex5"}, {"class ex5"})>>]

ConfigModuleForgets ==
  [init |-> <<Get("chrdev", ConfigNumbers, Error), Get("mapping", ConfigNumbers, Error),
              Get("class ex5", ConfigNumbers, Error),
              Get("node", ConfigNumbers \cup {"class ex5"}, Error),
              Get("file data", {}, 1),
              Get("file cfg", ConfigNumbers \cup {"class ex5"} \cup ConfigNodes, Error)>>,
   exit |-> <<Put({"mapping"}), Put({"chrdev"}), PutIf(ConfigFiles, {"node"}),
              PutIf({"node"}, {"node"}), PutIf({"class ex5"}, {"class ex5"})>>]

(* Every failure gives back all, as far as it is there; cdev_del does not  *)
(* ask whether there was a cdev_init.                                      *)
ConfigModule ==
  [init |-> <<Get("chrdev", ConfigNumbers, Error), Get("mapping", ConfigNumbers, Error),
              Get("class ex5", ConfigNumbers, Error),
              Get("node", ConfigNumbers \cup {"class ex5"}, Error),
              Get("file data", ConfigNumbers \cup {"class ex5"} \cup ConfigNodes, Error),
              Get("file cfg", ConfigNumbers \cup {"class ex5"} \cup ConfigNodes, Error)>>,
   exit |-> <<Put({"mapping"}), Put({"chrdev"}), PutIf(ConfigFiles, {"node"}),
              PutIf({"node"}, {"node"}), PutIf({"class ex5"}, {"class ex5"})>>]

GetAll(R, undo, ko) == [Need(R, undo, ko) EXCEPT !.do = "get"]

(* Exit frees the pins and interrupts that init went on without.  The      *)
(* interrupts are not shared; nobody else has one of GPIO 0 with id 0.     *)
SwitchModule ==
  [init |-> <<Get("misc switch_driver", {}, Error),
              Get("file", {"misc switch_driver"}, Error),
              Get("pin 0", {}, 2), Get("irq 0", {"pin 0"}, 1),
              Get("pin 2", {}, 2), GetAll(Irq2, {"pin 2"}, 1),
              Get("pin 3", {}, 2), GetAll(Irq3, {"pin 3"}, 1)>>,
   exit |-> <<Put({"file"}), Put({"misc switch_driver"}), Put({"irq 0"}), Put({"pin 0"}),
              Put(Irq2), Put({"pin 2"}), Put(Irq3), Put({"pin 3"})>>]

-----------------------------------------------------------------------------
(* The programs: what they export stays exported when they end.            *)

(* gpios_init of the daemon exports the third button twice.                *)
DaemonPins ==
  [init |-> <<Evict("pin 362"), Evict("pin 0"), Evict("pin 2"), Evict("pin 3"),
              Get("pin 362", {}, 1), Get("pin 0", {}, 1), Get("pin 2", {}, 1),
              Get("pin 3", {}, 1), Get("pin 3", {}, 1)>>,
   exit |-> <<>>]

(* main of better_led ends if a button is not there.                       *)
BetterLedPins ==
  [init |-> <<Evict("pin 10"), Get("pin 10", {}, 1), Get("epoll", {}, Error),
              Evict("pin 0"), Get("pin 0", {"epoll"}, Error),
              Evict("pin 2"), Get("pin 2", {"epoll"}, Error),
              Evict("pin 3"), Get("pin 3", {"epoll"}, Error)>>,
   exit |-> <<Put({"epoll"})>>]

SillyLedPins ==
  [init |-> <<Evict("pin 10"), Get("pin 10", {}, 1)>>,
   exit |-> <<>>]

(* 06_optimization: measurements with the same pin, with and without the   *)
(* registers mapped.                                                       *)
GpioPins ==
  [init |-> <<Evict("pin 203"), Get("pin 203", {}, 1)>>,
   exit |-> <<>>]

MmioPins ==
  [init |-> <<Evict("pin 203"), Get("pin 203", {}, 1), Get("/dev/mem", {}, Error)>>,
   exit |-> <<Put({"/dev/mem"})>>]

-----------------------------------------------------------------------------
(* teacher_solutions/02_modules.                                           *)

TeacherListModule ==
  [init |-> <<Get("element 1", {}, 1), Get("element 2", {}, 1)>>,
   exit |-> <<PutIf({"element 1"}, {"element 1"}), PutIf({"element 2"}, {"element 2"})>>]

(* The maps and the region stay when one map is missing.                   *)
TeacherRegisterModule ==
  [init |-> <<Get("region sid", {}, 1),
              Get("map 1", {}, 1), Get("map 2", {}, 1), Get("map 3", {}, 1),
              Need({"map 1", "map 2", "map 3"}, {}, Error),
              Put({"map 1", "map 2", "map 3"})>>,
   exit |-> <<PutIf({"region sid"}, {"region sid"})>>]

(* kthread_run is not tested, and kthread_stop follows what it returned.   *)
TeacherTickModule ==
  [init |-> <<Get("thread", {}, 1)>>,
   exit |-> <<Put({"thread"})>>]

TeacherKickModule ==
  [init |-> <<Get("thread 1", {}, 1), Get("thread 2", {}, 1)>>,
   exit |-> <<Put({"thread 2"}), Put({"thread 1"})>>]

(* Mutant: an error does not keep the module from being loaded.            *)
TeacherButtonModuleGoesOn ==
  [init |-> <<Get("pin 0", {}, Done), Get("irq 0 k1", {}, Done),
              Get("pin 2", {}, Done), Get("irq 2 k2", {}, Done),
              Get("pin 3", {}, Done), Get("irq 3 k3", {}, Done)>>,
   exit |-> <<Put({"pin 0"}), Put({"irq 0 k1"}), Put({"pin 2"}), Put({"irq 2 k2"}),
              Put({"pin 3"}), Put({"irq 3 k3"})>>]

(* An error leaves everything before it behind.                            *)
TeacherButtonModule ==
  [init |-> <<Get("pin 0", {}, Error), Get("irq 0 k1", {}, Error),
              Get("pin 2", {}, Error), Get("irq 2 k2", {}, Error),
              Get("pin 3", {}, Error), Get("irq 3 k3", {}, Error)>>,
   exit |-> <<Put({"pin 0"}), Put({"irq 0 k1"}), Put({"pin 2"}), Put({"irq 2 k2"}),
              Put({"pin 3"}), Put({"irq 3 k3"})>>]

-----------------------------------------------------------------------------
(* teacher_solutions/03_drivers.                                           *)

(* Exercises 2 and 9 report success whatever happened.                     *)
TeacherCharDevice ==
  [init |-> <<Get("chrdev", {}, Done), Get("mapping", {}, 1)>>,
   exit |-> <<Put({"mapping"}), Put({"chrdev"})>>]

TeacherIoctlDevice ==
  [init |-> <<Get("chrdev", {}, Done), Get("mapping", {}, 1)>>,
   exit |-> <<Put({"mapping"}), Put({"chrdev"})>>]

TeacherBuffersDevice ==
  [init |-> <<Get("chrdev", {}, Error), Get("mapping", {}, Error),
              Get("buffers", {}, Oops), Get("buffer 0", {}, 1), Get("buffer 1", {}, 1)>>,
   exit |-> <<Put({"mapping"}), Put({"chrdev"}), Put({"buffer 0", "buffer 1"}),
              Put({"buffers"})>>]

(* device_create_file follows the error that device_create returns, which  *)
(* returns one as well if there is no class.                               *)
TeacherConfig ==
  [init |-> <<Get("class my", {}, Oops), Get("node", {}, Oops),
              Get("file val", {}, Done), Get("file cfg", {}, 1)>>,
   exit |-> <<Put({"file val"}), Put({"file cfg"}), Put({"node"}), Put({"class my"})>>]

(* The device is created with the numbers of the chrdev, and device_destroy*)
(* looks for one with number 0: it never goes away.                        *)
TeacherConfigDevice ==
  [init |-> <<Get("chrdev", {}, 2), Get("mapping", {}, 1),
              Get("class my", {}, 2), Get("node", {}, 1),
              Need({"chrdev", "mapping"}, {}, Done), Need({"class my", "node"}, {}, Oops),
              Get("file val", {}, Done), Get("file cfg", {}, 1)>>,
   exit |-> <<Need({"class my", "node"}, {}, Oops), Put({"file val"}), Put({"file cfg"}),
              Put({"class my"}), Put({"mapping"}), Put({"chrdev"})>>]

TeacherAttribute ==
  [init |-> <<Get("class myclass", {}, Oops), Get("node", {}, Oops), Get("file", {}, Error)>>,
   exit |-> <<Put({"file"}), Put({"node"}), Put({"class myclass"})>>]

(* Two of the five devices; init returns the status of the last one.       *)
TeacherAttributes ==
  [init |-> <<Get("class myclass", {}, Oops), Get("node 1", {}, Oops), Get("file 1", {}, 1),
              Get("node 2", {}, Oops), Get("file 2", {}, Error)>>,
   exit |-> <<Put({"file 1"}), Put({"node 1"}), Put({"file 2"}), Put({"node 2"}),
              Put({"class myclass"})>>]

(* Two platform devices of three.                                          *)
TeacherPlatformDevices ==
  [init |-> <<Get("chrdev", {}, Error), Get("mapping", {}, Error),
              Get("device mymodule.0", {}, Error), Get("file 0", {}, Error),
              Get("device mymodule.1", {}, Error), Get("file 1", {}, Error)>>,
   exit |-> <<Put({"file 0"}), Put({"device mymodule.0"}), Put({"file 1"}),
              Put({"device mymodule.1"}), Put({"mapping"}), Put({"chrdev"})>>]

(* init reports success whether or not the driver is registered and bound; *)
(* the kernel frees the memory of a device that it does not bind, and      *)
(* removes a bound one.  A device tree with two children.                  *)
TeacherTreeDriver ==
  [init |-> <<Get("driver mydriver", {}, Done), Get("bound", {}, Done),
              Get("list", {"bound"}, Done),
              Get("data 1", {"bound", "list"}, Done),
              Get("misc 1", {"bound", "list", "data 1"}, Done),
              Get("data 2", {"bound", "list", "data 1"}, Done),
              Get("misc 2", {"bound", "list", "data 1", "data 2"}, Done)>>,
   exit |-> <<PutIf({"misc 1", "misc 2"}, {"bound"}),
              PutIf({"list", "data 1", "data 2", "bound"}, {"bound"}), Put({"driver mydriver"})>>]

(* The driver remembers the last child only.                               *)
TeacherLastDriver ==
  [init |-> <<Get("driver mydriver", {}, Done), Get("bound", {}, Done),
              Get("data 1", {"bound"}, Done), Get("misc 1", {"bound", "data 1"}, Done),
              Get("file 1", {"bound", "data 1"}, Done),
              Get("data 2", {"bound", "data 1"}, Done),
              Get("misc 2", {"bound", "data 1", "data 2"}, Done),
              Get("file 2", {"bound", "data 1", "data 2"}, Done)>>,
   exit |-> <<PutIf({"misc 2", "file 2"}, {"bound"}),
              PutIf({"data 1", "data 2", "bound"}, {"bound"}), Put({"driver mydriver"})>>]

TeacherMiscDriver ==
  [init |-> <<Get("driver mydriver", {}, Error), Get("bound", {}, Done),
              Get("misc mydevice", {}, 1)>>,
   exit |-> <<PutIf({"misc mydevice", "bound"}, {"bound"}), Put({"driver mydriver"})>>]

(* The interrupts without the pins; they go with the misc device.          *)
TeacherPollModule ==
  [init |-> <<Get("misc mymodule", {}, Error), Get("irq 0 poll", {}, Error),
              Get("irq 2 poll", {}, Error), Get("irq 3 poll", {}, Error)>>,
   exit |-> <<Put({"misc mymodule", "irq 0 poll", "irq 2 poll", "irq 3 poll"})>>]

TeacherMmapDevice ==
  [init |-> <<Get("chrdev", {}, Done), Get("mapping", {}, Done), Get("device mymodule", {}, 1)>>,
   exit |-> <<Put({"device mymodule"}), Put({"mapping"}), Put({"chrdev"})>>]

(* Without a directory the entries are created at the top of /proc, and    *)
(* stay there.                                                             *)
TeacherProcModule ==
  [init |-> <<Get("proc mymodule", {}, 1), Get("proc config", {}, 1), Get("proc val", {}, 1),
              Need({"proc mymodule"}, {}, Error)>>,
   exit |-> <<Put({"proc val"}), Put({"proc config"}), Put({"proc mymodule"})>>]
=============================================================================
