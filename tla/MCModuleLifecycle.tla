------------------------- MODULE MCModuleLifecycle --------------------------
(* Every driver alone, and every two that want the same pin, interrupt or  *)
(* name.                                                                   *)
EXTENDS DriverLadders

MCLadder ==
  [list |-> ListModule, register |-> RegisterModule, tick |-> TickModule, kick |-> KickModule,
   button |-> ButtonModule, config |-> ConfigModule, switch |-> SwitchModule,
   daemon |-> DaemonPins, better_led |-> BetterLedPins, silly_led |-> SillyLedPins,
   gpio |-> GpioPins, mmio |-> MmioPins,
   t_list |-> TeacherListModule, t_register |-> TeacherRegisterModule,
   t_tick |-> TeacherTickModule, t_kick |-> TeacherKickModule, t_button |-> TeacherButtonModule,
   t_char |-> TeacherCharDevice, t_ioctl |-> TeacherIoctlDevice,
   t_buffers |-> TeacherBuffersDevice, t_config |-> TeacherConfig,
   t_config_device |-> TeacherConfigDevice, t_attribute |-> TeacherAttribute,
   t_attributes |-> TeacherAttributes, t_platform |-> TeacherPlatformDevices,
   t_tree |-> TeacherTreeDriver, t_last |-> TeacherLastDriver, t_misc |-> TeacherMiscDriver,
   t_poll |-> TeacherPollModule, t_mmap |-> TeacherMmapDevice, t_proc |-> TeacherProcModule]

MCDrivers  == DOMAIN MCLadder
MCPrograms == {"daemon", "better_led", "silly_led", "gpio", "mmio"}

Pins  == {"pin 0", "pin 2", "pin 3"}
Irqs  == {"irq 0"} \cup Irq2 \cup Irq3
MCUnowned == Pins \cup Irqs

MCUnique ==
  Pins \cup {"pin 10", "pin 203", "pin 362"}
  \cup Irqs \cup {"irq 0 k1", "irq 2 k2", "irq 3 k3", "irq 0 poll", "irq 2 poll", "irq 3 poll"}
  \cup {"class ex5", "class my", "class myclass", "driver mydriver", "region sid"}
  \cup {"misc switch_driver", "misc mydevice", "misc mymodule", "misc 1", "misc 2"}
  \cup {"device mymodule", "device mymodule.0", "device mymodule.1", "proc mymodule"}

(* Interrupts of one line that cannot be shared: not requested as shared,  *)
(* or with another trigger.                                                *)
MCClashes ==
  {{"irq 0", "irq 0 poll"}, {"irq 2", "irq 2 poll"}, {"irq 3", "irq 3 poll"},
   {"irq 2 k2", "irq 2 poll"}, {"irq 3 k3", "irq 3 poll"},
   {"irq 0", "irq 0 k1"}, {"irq 2 alone", "irq 2 k2"}, {"irq 3 alone", "irq 3 k3"}}

Shares(d) == MCUnique \cap UNION {MCLadder[d].init[k].what : k \in 1 .. Len(MCLadder[d].init)}

MCCasts ==
  {{d} : d \in MCDrivers} \cup {{d, "t_poll"} : d \in {"button", "switch", "t_button"}}
  \cup {{p[1], p[2]} : p \in {p \in MCDrivers \X MCDrivers :
                         Shares(p[1]) \cap Shares(p[2]) # {}}}

(* The outlines: jumps go forward only.                                    *)
After(steps, j, k, S) ==
  LET s == steps[j] IN
  {T \in {S \cup s.what} : s.do = "get" /\ s.what \cap Refused = {} /\ k = j + 1}
  \cup {T \in {S} : s.do = "need" /\ s.what \subseteq S /\ k = j + 1}
  \cup {T \in {S \ s.undo} : CanFail(s, S) /\ s.ko > 0 /\ k = Beyond(steps, j + s.ko)}
  \cup {T \in {S \ Returns(s, S)} : s.do = "put" /\ k = j + 1}
  \cup {T \in {S \ s.what} : s.do = "evict" /\ k = j + 1}

Reached(steps, from) ==
  LET n    == Len(steps) + 1
      O[k \in 1 .. n] ==
        (IF k = 1 THEN from ELSE {}) \cup
        UNION {UNION {After(steps, j, k, S) : S \in O[j]} : j \in 1 .. (k - 1)}
  IN  [k \in 1 .. n |-> O[k]]

MCOutline ==
  [d \in MCDrivers |->
     LET init == Reached(MCLadder[d].init, {{}})
     IN  [init |-> init,
          exit |-> Reached(MCLadder[d].exit, init[Len(MCLadder[d].init) + 1])]]

MCForgiving ==
  {"text 1", "text 2", "map 1", "map 2", "map 3", "mapping", "buffer 0", "buffer 1",
   "file data", "file cfg", "file val", "file 1"}

MCFatal == {"thread", "thread 1", "thread 2", "device mymodule"}

MCCareful ==
  {"list", "register", "tick", "button", "config", "switch",
   "t_list", "t_tick", "t_kick", "t_char", "t_ioctl", "t_config", "t_misc", "t_mmap"}
MCExact ==
  MCPrograms \cup
  {"list", "register", "tick", "kick", "t_list", "t_register", "t_button", "t_buffers",
   "t_config", "t_attribute", "t_attributes", "t_platform", "t_poll"}
MCStrict ==
  {"tick", "kick", "config", "t_button", "t_attribute", "t_platform", "t_poll"}
MCFragile ==
  {"t_tick", "t_kick", "t_buffers", "t_config", "t_config_device", "t_attribute",
   "t_attributes", "t_mmap"}
=============================================================================
