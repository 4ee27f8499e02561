SPECIFICATION PluginSpec
CONSTANTS
  Plugins = {"counter_spin", "timer_spin", "timer_spin_default_stream", "sharedmem_timer_spin",
             "random_walk", "inorder_walk", "cpu_random_walk", "cpu_inorder_walk",
             "mandelbrot", "matrix_multiply", "matrix_multiply_skip_copy", "multikernel"}
  Infos <- MCInfos
  Iterations = 3
  WalkLength = 3
  MaxMemoryAllocationCount = 3
  InitialAllocationCount = 1
INVARIANTS
  MemorySafe ReleasesAll ResultsFresh BalancedRuns
PROPERTY
  InstanceEnds
