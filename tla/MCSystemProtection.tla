-------------------------- MODULE MCSystemProtection --------------------------
(***************************************************************************)
(* Machines: the system on a partition, on NVMe, on LVM over LUKS, on a     *)
(* RAID, on devices made of each other; mounts that are named by links or   *)
(* cannot be read; a sysfs that is not there.                               *)
(***************************************************************************)
EXTENDS SystemProtection

sda == <<"sd", "a">>
sdb == <<"sd", "b">>
sdaa == <<"sd", "a", "a">>
Part(disk, n) == disk \o <<n>>
nvme == <<"nvme", "0", "n", "1">>
nvmeP(n) == nvme \o <<"p", n>>
dm(n) == <<"dm-", n>>
loop(x) == <<"loop", x>>

DevOf(name) == Dev \o name
Mount(dev, at) == [dev |-> dev, at |-> at]

MCPieces == STRING
MCFold == [x \in {"Windows", "Etc"} |-> IF x = "Windows" THEN "windows" ELSE "etc"]

Notes == <<"/", "home", "/", "u", "/", "notes">>
Passwd == <<"/", "etc", "/", "passwd">>
Conf == <<"/", "home", "/", "u", "/", "conf">>     \* a link to /etc
Usb == Dev \o <<"disk", "/", "by-id", "/", "usb">>  \* a link to sdb
Files == {Notes, Passwd, <<"/", "etc">>, <<"/", "home">>, Root, <<"/", "usr", "/", "tool">>}

(* A machine of whole disks, partitions, and devices made of others.        *)
Machine(disks, disk, slaves, mounts, links) ==
  LET names == disks \cup DOMAIN disk \cup DOMAIN slaves
  IN [mounts |-> mounts, readable |-> TRUE, sys |-> names, disk |-> disk,
      slaves |-> [n \in names |-> IF n \in DOMAIN slaves THEN slaves[n] ELSE {}],
      above |-> [n \in names |-> {IF n \in DOMAIN disk THEN disk[n]
                                  ELSE IF n = nvme THEN <<"nvme", "0">> ELSE <<"block">>}],
      links |-> links @@ (Conf :> <<"/", "etc">>) @@ (Usb :> DevOf(sdb)),
      exists |-> Files \cup {DevOf(n) : n \in names},
      cwd |-> <<"/", "home", "/", "u">>, exe |-> <<"/", "usr", "/", "tool">>]

NoLinks == <<>>
PartsOf(parts) == [p \in parts |-> CHOOSE d \in {sda, sdb, nvme} : IsPrefix(d, p)]
Sdb == {Part(sdb, "1")}
Swap == Mount(<<"tmpfs">>, "/tmp")
Stick == Mount(DevOf(Part(sdb, "1")), "/media/stick")

Plain ==
  Machine({sda, sdb, sdaa}, PartsOf(Sdb \cup {Part(sda, "1"), Part(sda, "2")}), <<>>,
          <<Swap, Mount(DevOf(Part(sda, "1")), "/boot/efi"), Mount(DevOf(Part(sda, "2")), "/"), Stick>>,
          NoLinks)

Nvme ==
  Machine({nvme, sdb}, PartsOf(Sdb \cup {nvmeP("1"), nvmeP("2")}), <<>>,
          <<Mount(DevOf(nvmeP("2")), "/"), Stick>>, NoLinks)

Volume(name) == <<"mapper", "/", "vg-">> \o name
Others == {DevOf(Volume(name)) : name \in {<<"root", "2">>, <<"data">>}}

(* LVM over LUKS, with another volume of the same group; the source of the    *)
(* mount is named by a link in a directory of the volume group, or by one in   *)
(* /dev/mapper.                                                            *)
Layered(name) ==
  Machine({sda, sdb}, PartsOf(Sdb \cup {Part(sda, "1"), Part(sda, "4")}),
          (dm("1") :> {dm("3")}) @@ (dm("2") :> {dm("3")}) @@ (dm("3") :> {Part(sda, "4")}),
          <<Mount(DevOf(name), "/"), Stick>>,
          (DevOf(name) :> DevOf(dm("2"))) @@ [l \in Others |-> DevOf(dm("1"))])

ByKernel ==
  [Layered(<<"vg", "/", "root">>) EXCEPT !.mounts[1].dev = DevOf(dm("2"))]

Raid ==
  Machine({sda, sdb, nvme}, PartsOf(Sdb \cup {Part(sda, "1"), nvmeP("1")}),
          <<"md", "0">> :> {Part(sda, "1"), Part(sdb, "1")},
          <<Mount(DevOf(<<"disk", "/", "by-uuid", "/", "f0">>), "/")>>,
          DevOf(<<"disk", "/", "by-uuid", "/", "f0">>) :> DevOf(<<"md", "0">>))

Loops ==
  Machine({sdb, sda}, PartsOf(Sdb),
          (loop("A") :> {loop("B")}) @@ (loop("B") :> {loop("A"), loop("C")}) @@ (loop("C") :> {loop("C")}),
          <<Mount(DevOf(loop("A")), "/"), Mount(DevOf(loop("C")), "/boot")>>, NoLinks)

MCWorlds ==
  {Plain, Nvme, ByKernel, Layered(<<"vg", "/", "root">>), Layered(Volume(<<"root">>)),
   Raid, Loops, [Plain EXCEPT !.sys = {}], [Nvme EXCEPT !.sys = {}],
   [Plain EXCEPT !.readable = FALSE], [Plain EXCEPT !.mounts = <<Swap>>],
   [Plain EXCEPT !.cwd = <<"/", "etc">>]}

MCTargets ==
  {DevOf(n) : n \in {sda, Part(sda, "1"), Part(sda, "2"), Part(sda, "4"), sdb, Part(sdb, "1"), sdaa,
                     nvme, nvmeP("1"), nvmeP("2"), dm("1"), dm("2"), dm("3"), <<"md", "0">>,
                     loop("A"), loop("B"), loop("C"), Volume(<<"root">>),
                     <<"vg", "/", "root">>, <<"shm", "/", "x">>}}
  \cup Others
  \cup {Usb, Notes, Passwd, Conf, Conf \o <<"/", "passwd">>, <<"passwd">>, <<"notes">>, <<>>, Root,
        <<"C:">>, <<"C:", "/", "Windows", "/", "x">>, <<"C:", "/", "users", "/", "u">>,
        <<"/", "home">>, <<"/", "home", "/", "u", "/", "appdata", "/", "x">>,
        <<"/", "home", "/", "u", "/", "appdata-old">>,
        <<"/", "home", "/", "u", "/", "vmlinuz">>, <<"/", "usr", "/", "tool">>, <<"/", "Etc", "/", "x">>}
=============================================================================
