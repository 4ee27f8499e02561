---------------------------- MODULE NvdebugCalls ----------------------------
(***************************************************************************)
(* What the files of nvdebug do to reach a context's memory, as blocks of  *)
(* steps: where they look for an address in the PRAMIN window, which       *)
(* pointer they then use, and where they go when a step fails.             *)
(*                                                                         *)
(* c is the GPU: its chip, whether it has a BAR2 that maps the runlist and *)
(* the instance blocks, and what a channel's instance block says.          *)
(***************************************************************************)
EXTENDS Integers, Sequences

\* Chips in order of their age.
Kepler == 1
Maxwell == 2
Pascal == 3
Volta == 4
Ampere == 5

Step(op, k, obj, fail) == [op |-> op, k |-> k, obj |-> obj, fail |-> fail]

\* A register is read; -1 means that it failed.
Reg(fail) == Step("reg", "", "", fail)
\* A pointer to obj is asked of addr_to_pramin_mut; the caller goes to fail
\* on an error, or compares it with -1, which no error is.
Addr(k, obj, fail) == Step("addr", k, obj, fail)
AddrOrGarbage(k, obj) == Step("addr", k, obj, "garbage")
Use(k) == Step("use", k, "", "")
\* A pointer that does not depend on the window.
Bypass(k) == Step("bypass", k, "", "")
Go(to) == Step("go", "", "", to)
Do(what) == Step(what, "", "", "")

\* get_bar2_pdb with the caller's test of its result.
get_bar2_pdb(fail) ==
  <<Reg(fail), Addr("pd", "bar2_instance", fail), Use("pd")>>

\* Where BAR2 maps an address: an error ends the search like a table without
\* the address.  Before Pascal the tables have the V1 format.
search_page_directory(c, k, missing) ==
  <<Addr("pd", "bar2_directory", missing), Use("pd"),
    IF c.in_bar2 THEN Bypass(k) ELSE Go(missing)>>
search_v1_page_directory(c, k, missing) ==
  <<Addr("pd", "bar2_directory", missing), Use("pd"), Addr("pd", "bar2_table", missing), Use("pd"),
    IF c.in_bar2 THEN Bypass(k) ELSE Go(missing)>>
SearchBar2(c, k, missing) ==
  IF c.chip < Pascal THEN search_v1_page_directory(c, k, missing)
                     ELSE search_page_directory(c, k, missing)

\* A virtual address in the driver's two tables.  The V1 form tests the pointer
\* to the directory a second time, and never that to the table.
translate_page_directory(fail) ==
  <<Addr("pd", "directory", fail), Use("pd"), Addr("pd", "table", fail), Use("pd")>>
translate_v1_page_directory(fail) ==
  <<Addr("pd", "directory", fail), Use("pd"), AddrOrGarbage("pd", "table"), Use("pd")>>
TranslateAddress(c, fail) ==
  IF c.chip < Pascal THEN translate_v1_page_directory(fail) ELSE translate_page_directory(fail)

\* get_runlist_iter; at label attempt_pramin_access it goes on in block
\* runlist_pramin.
get_runlist_iter(c) ==
  <<Do("clear_iter"), Reg("err")>> \o
  (IF c.bar2 THEN get_bar2_pdb("runlist_pramin") \o SearchBar2(c, "rl", "runlist_pramin")
   ELSE <<Go("runlist_pramin")>>) \o <<Do("set_iter")>>
RunlistInWindow == <<AddrOrGarbage("rl", "runlist"), Do("set_iter")>>

\* instance_deref: never a pointer into the window.
instance_deref(c, none) ==
  IF c.bar2 THEN get_bar2_pdb("err") \o SearchBar2(c, "inst", none)
  ELSE <<Go(none)>>

\* Mutant: the pointer to the WFI block is used after the search for the CTXSW block.
get_ctxswLate(c, none, fail) ==
  <<Use("inst"), AddrOrGarbage("ctxsw", "wfi"), Use("inst")>> \o
  TranslateAddress(c, fail) \o <<Use("ctxsw"), AddrOrGarbage("ctxsw", "ctxsw")>>

\* get_ctxsw: the instance block is read again after the window was moved.
get_ctxsw(c, none, fail) ==
  <<Use("inst")>> \o
  IF ~c.wfi THEN <<Go(none)>>
  ELSE (IF c.virtual THEN TranslateAddress(c, fail) ELSE <<>>) \o
       <<AddrOrGarbage("ctxsw", "wfi"), Use("inst")>> \o
       IF c.chip < Volta THEN <<>>
       ELSE <<Use("ctxsw"), Use("inst")>> \o TranslateAddress(c, fail) \o
            <<AddrOrGarbage("ctxsw", "ctxsw")>>

\* runlist_detail_seq_show_chan and _inst, with FALLBACK_TO_PRAMIN: the window
\* is put back where it was, except on the returns for old chips.
runlist_detail_seq_show(c) ==
  <<Reg("shown"), Do("save"), AddrOrGarbage("inst", "instance"), Use("inst")>> \o
  (IF c.chip < Maxwell THEN <<>>
   ELSE get_ctxsw(c, "restore", "restore") \o <<Use("ctxsw")>> \o
        IF c.chip < Pascal THEN <<>> ELSE <<Use("ctxsw"), Do("restore")>>) \o
  <<Do("shown")>>

\* map_mem_ctxid_file_write for one channel of the runlist; only the context
\* of the second matches.
MapMemCtxid(c, none, matches) ==
  <<Use("rl")>> \o (IF c.chip < Ampere THEN <<Reg("err")>> ELSE <<>>) \o
  instance_deref(c, none) \o get_ctxsw(c, none, "err") \o <<Use("ctxsw")>> \o
  IF ~matches THEN <<Go(none)>>
  ELSE <<Reg("err"), Do("set_timeout"), Use("ctxsw"), Do("set_mode"), Go("map")>>

\* map_mem_chid_file_write for one channel.
MapMemChid(c) ==
  IF c.chip >= Ampere \/ c.chip < Pascal THEN <<Go("err")>>
  ELSE <<Reg("err")>> \o
       IF c.bar2 THEN get_bar2_pdb("err") \o SearchBar2(c, "inst", "instance_pramin") \o <<Go("map")>>
       ELSE <<Go("err")>>

\* map_mem_for_instance up to the first mapping: the page directory's address
\* is copied out of the instance block, which may be in the window.
map_mem_for_instance(c) ==
  <<Reg("err"), Use("inst")>> \o
  IF c.chip < Pascal THEN <<Go("err")>> ELSE <<Reg("err"), Do("map_pages")>>

\* set_channel_preemption_mode: an instance or context block that is not found
\* (NULL) makes it return PTR_ERR(NULL), which is 0.
set_channel_preemption_mode(c) ==
  (IF c.chip < Ampere THEN <<Reg("err")>> ELSE <<Use("rl")>>) \o
  instance_deref(c, "unset") \o get_ctxsw(c, "unset", "err") \o
  <<Use("ctxsw"), Do("set_mode")>> \o
  (IF c.chip < Volta THEN <<>> ELSE <<Reg("err"), Do("set_timeout")>>) \o <<Do("return")>>

\* What each file does first with the runlist it has found.
AfterIter(call) ==
  CASE call = "read" -> "show" [] call = "map_mem_ctxid" -> "channel1" [] OTHER -> "mode"

\* The blocks of a call; it begins in "begin" and fails in "err".
Block(c, call, label) ==
  CASE label = "begin" ->
         (CASE call = "map_mem_chid" -> MapMemChid(c)
            [] call = "preempt_mode" /\ c.chip < Ampere -> <<Go("mode")>>
            [] call = "read" -> <<Do("seq_start")>>
            [] OTHER -> get_runlist_iter(c) \o <<Go(AfterIter(call))>>)
    [] label = "runlist" -> get_runlist_iter(c) \o <<Go(AfterIter(call))>>
    [] label = "runlist_pramin" -> RunlistInWindow \o <<Go(AfterIter(call))>>
    [] label = "channel1" -> MapMemCtxid(c, "channel2", FALSE)
    [] label = "channel2" -> MapMemCtxid(c, "err", TRUE)
    [] label = "instance_pramin" -> <<Addr("inst", "instance", "err"), Go("map")>>
    [] label = "map" -> map_mem_for_instance(c)
    [] label = "mode" -> set_channel_preemption_mode(c)
    [] label = "show" -> <<Use("rl"), Do("show")>>
    [] label = "channel" -> runlist_detail_seq_show(c)
    [] label = "restore" -> <<Do("restore"), Do("shown")>>
    [] label = "shown" -> <<Do("shown")>>
    [] label = "next" -> <<Do("next")>>
    [] label = "unset" -> <<Do("return")>>
    [] label = "err" -> <<Do("return_error")>>
=============================================================================
