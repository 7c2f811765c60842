\* The interface with memory_queue_clean, as test_memory_queue.c uses it.
CONSTANTS
  Capacity = 8
  HeaderSize = 2
  SizeModulus = 64
  LockCapacity = 1
  PayloadSizes = {1, 2}
SPECIFICATION ApiSpec
PROPERTIES EmptiedQueueIndicesMeet
